---- MODULE Spec2Model ----
(***************************************************************************)
(* A model of biotech_main.py: the three-stage lead pipeline               *)
(* (identification, enrichment, scoring) with its process-wide quota flag. *)
(*                                                                         *)
(* A Python str is the sequence of its code points, so that split, strip,  *)
(* replace, lower, the regular expressions and the JSON parse are computed *)
(* character by character, as the code computes them.  A str literal of    *)
(* the code is written as its code points, followed by a comment that      *)
(* spells it (a double quote or a backtick is shown as ', a character      *)
(* outside the comment's alphabet as ?).  Positions in a str count from 1. *)
(* The character tables are those of Unicode 14.0.0, the version of the    *)
(* interpreter's unicodedata.                                              *)
(*                                                                         *)
(* A Python dict is a record; a key that is absent is absent from its      *)
(* DOMAIN.  In a lead dict, title, company and source are always str and   *)
(* hold the code points; has_recent_paper holds the Boolean and score the  *)
(* integer.  name, linkedin, email and location can hold whatever the      *)
(* extraction answered, and hold a Python object tagged with its type,     *)
(* [t |-> type, v |-> content], also when that object is a str.            *)
(*                                                                         *)
(* Python's int is unbounded: an int the code reads from text is held as   *)
(* the str of its decimal digits, and computed with on those digits.  A    *)
(* Python float is held as the str repr() gives it.                        *)
(***************************************************************************)
EXTENDS Integers, Sequences, FiniteSets, TLC

(***************************************************************************)
(* Characters and the str methods the code uses.                           *)
(***************************************************************************)
Range(s) == {s[i] : i \in DOMAIN s}

Min(a, b) == IF a <= b THEN a ELSE b

\* whether c lies in one of the <<first, last>> runs of a table
InRuns(c, runs) == \E k \in DOMAIN runs : runs[k][1] <= c /\ c <= runs[k][2]

\* [A-Z] and [a-z] of the name pattern: ASCII letters only
UpperChars == 65..90
LowerChars == 97..122

\* \d of a str pattern: every decimal digit of Unicode.  The digits of a
\* script are ten consecutive code points, 0 to 9; the table holds each zero
DigitStarts == <<
    48, 1632, 1776, 1984, 2406, 2534, 2662, 2790, 2918, 3046, 3174, 3302, 3430, 3558, 3664,
    3792, 3872, 4160, 4240, 6112, 6160, 6470, 6608, 6784, 6800, 6992, 7088, 7232, 7248, 42528,
    43216, 43264, 43472, 43504, 43600, 44016, 65296, 66720, 68912, 69734, 69872, 69942, 70096,
    70384, 70736, 70864, 71248, 71360, 71472, 71904, 72016, 72784, 73040, 73120, 92768, 92864,
    93008, 120782, 120792, 120802, 120812, 120822, 123200, 123632, 125264, 130032 >>

DigitChars == UNION {DigitStarts[k]..(DigitStarts[k] + 9) : k \in DOMAIN DigitStarts}

\* the value int() gives a decimal digit
DigitVal(c) ==
    LET k == CHOOSE j \in DOMAIN DigitStarts : DigitStarts[j] <= c /\ c <= DigitStarts[j] + 9
    IN  c - DigitStarts[k]

\* the characters str.strip() and str.split() take for whitespace
WhitespaceRuns == <<
    <<9, 13>>, <<28, 32>>, <<133, 133>>, <<160, 160>>, <<5760, 5760>>, <<8192, 8202>>,
    <<8232, 8233>>, <<8239, 8239>>, <<8287, 8287>>, <<12288, 12288>> >>

Whitespace == UNION {WhitespaceRuns[k][1]..WhitespaceRuns[k][2] : k \in DOMAIN WhitespaceRuns}

\* str.lower(), one character to one character: <<first, last, step, delta>>
\* says that first, first + step, ..., last each map to themselves + delta
LowerRuns == <<
    <<65, 90, 1, 32>>, <<192, 214, 1, 32>>, <<216, 222, 1, 32>>, <<256, 302, 2, 1>>,
    <<306, 310, 2, 1>>, <<313, 327, 2, 1>>, <<330, 374, 2, 1>>, <<376, 376, 1, -121>>,
    <<377, 381, 2, 1>>, <<385, 385, 1, 210>>, <<386, 388, 2, 1>>, <<390, 390, 1, 206>>,
    <<391, 391, 1, 1>>, <<393, 394, 1, 205>>, <<395, 395, 1, 1>>, <<398, 398, 1, 79>>,
    <<399, 399, 1, 202>>, <<400, 400, 1, 203>>, <<401, 401, 1, 1>>, <<403, 403, 1, 205>>,
    <<404, 404, 1, 207>>, <<406, 406, 1, 211>>, <<407, 407, 1, 209>>, <<408, 408, 1, 1>>,
    <<412, 412, 1, 211>>, <<413, 413, 1, 213>>, <<415, 415, 1, 214>>, <<416, 420, 2, 1>>,
    <<422, 422, 1, 218>>, <<423, 423, 1, 1>>, <<425, 425, 1, 218>>, <<428, 428, 1, 1>>,
    <<430, 430, 1, 218>>, <<431, 431, 1, 1>>, <<433, 434, 1, 217>>, <<435, 437, 2, 1>>,
    <<439, 439, 1, 219>>, <<440, 440, 1, 1>>, <<444, 444, 1, 1>>, <<452, 452, 1, 2>>,
    <<453, 453, 1, 1>>, <<455, 455, 1, 2>>, <<456, 456, 1, 1>>, <<458, 458, 1, 2>>,
    <<459, 475, 2, 1>>, <<478, 494, 2, 1>>, <<497, 497, 1, 2>>, <<498, 500, 2, 1>>,
    <<502, 502, 1, -97>>, <<503, 503, 1, -56>>, <<504, 542, 2, 1>>, <<544, 544, 1, -130>>,
    <<546, 562, 2, 1>>, <<570, 570, 1, 10795>>, <<571, 571, 1, 1>>, <<573, 573, 1, -163>>,
    <<574, 574, 1, 10792>>, <<577, 577, 1, 1>>, <<579, 579, 1, -195>>, <<580, 580, 1, 69>>,
    <<581, 581, 1, 71>>, <<582, 590, 2, 1>>, <<880, 882, 2, 1>>, <<886, 886, 1, 1>>,
    <<895, 895, 1, 116>>, <<902, 902, 1, 38>>, <<904, 906, 1, 37>>, <<908, 908, 1, 64>>,
    <<910, 911, 1, 63>>, <<913, 929, 1, 32>>, <<932, 939, 1, 32>>, <<975, 975, 1, 8>>,
    <<984, 1006, 2, 1>>, <<1012, 1012, 1, -60>>, <<1015, 1015, 1, 1>>, <<1017, 1017, 1, -7>>,
    <<1018, 1018, 1, 1>>, <<1021, 1023, 1, -130>>, <<1024, 1039, 1, 80>>,
    <<1040, 1071, 1, 32>>, <<1120, 1152, 2, 1>>, <<1162, 1214, 2, 1>>, <<1216, 1216, 1, 15>>,
    <<1217, 1229, 2, 1>>, <<1232, 1326, 2, 1>>, <<1329, 1366, 1, 48>>, <<4256, 4293, 1, 7264>>,
    <<4295, 4295, 1, 7264>>, <<4301, 4301, 1, 7264>>, <<5024, 5103, 1, 38864>>,
    <<5104, 5109, 1, 8>>, <<7312, 7354, 1, -3008>>, <<7357, 7359, 1, -3008>>,
    <<7680, 7828, 2, 1>>, <<7838, 7838, 1, -7615>>, <<7840, 7934, 2, 1>>,
    <<7944, 7951, 1, -8>>, <<7960, 7965, 1, -8>>, <<7976, 7983, 1, -8>>, <<7992, 7999, 1, -8>>,
    <<8008, 8013, 1, -8>>, <<8025, 8031, 2, -8>>, <<8040, 8047, 1, -8>>, <<8072, 8079, 1, -8>>,
    <<8088, 8095, 1, -8>>, <<8104, 8111, 1, -8>>, <<8120, 8121, 1, -8>>,
    <<8122, 8123, 1, -74>>, <<8124, 8124, 1, -9>>, <<8136, 8139, 1, -86>>,
    <<8140, 8140, 1, -9>>, <<8152, 8153, 1, -8>>, <<8154, 8155, 1, -100>>,
    <<8168, 8169, 1, -8>>, <<8170, 8171, 1, -112>>, <<8172, 8172, 1, -7>>,
    <<8184, 8185, 1, -128>>, <<8186, 8187, 1, -126>>, <<8188, 8188, 1, -9>>,
    <<8486, 8486, 1, -7517>>, <<8490, 8490, 1, -8383>>, <<8491, 8491, 1, -8262>>,
    <<8498, 8498, 1, 28>>, <<8544, 8559, 1, 16>>, <<8579, 8579, 1, 1>>, <<9398, 9423, 1, 26>>,
    <<11264, 11311, 1, 48>>, <<11360, 11360, 1, 1>>, <<11362, 11362, 1, -10743>>,
    <<11363, 11363, 1, -3814>>, <<11364, 11364, 1, -10727>>, <<11367, 11371, 2, 1>>,
    <<11373, 11373, 1, -10780>>, <<11374, 11374, 1, -10749>>, <<11375, 11375, 1, -10783>>,
    <<11376, 11376, 1, -10782>>, <<11378, 11378, 1, 1>>, <<11381, 11381, 1, 1>>,
    <<11390, 11391, 1, -10815>>, <<11392, 11490, 2, 1>>, <<11499, 11501, 2, 1>>,
    <<11506, 11506, 1, 1>>, <<42560, 42604, 2, 1>>, <<42624, 42650, 2, 1>>,
    <<42786, 42798, 2, 1>>, <<42802, 42862, 2, 1>>, <<42873, 42875, 2, 1>>,
    <<42877, 42877, 1, -35332>>, <<42878, 42886, 2, 1>>, <<42891, 42891, 1, 1>>,
    <<42893, 42893, 1, -42280>>, <<42896, 42898, 2, 1>>, <<42902, 42920, 2, 1>>,
    <<42922, 42922, 1, -42308>>, <<42923, 42923, 1, -42319>>, <<42924, 42924, 1, -42315>>,
    <<42925, 42925, 1, -42305>>, <<42926, 42926, 1, -42308>>, <<42928, 42928, 1, -42258>>,
    <<42929, 42929, 1, -42282>>, <<42930, 42930, 1, -42261>>, <<42931, 42931, 1, 928>>,
    <<42932, 42946, 2, 1>>, <<42948, 42948, 1, -48>>, <<42949, 42949, 1, -42307>>,
    <<42950, 42950, 1, -35384>>, <<42951, 42953, 2, 1>>, <<42960, 42960, 1, 1>>,
    <<42966, 42968, 2, 1>>, <<42997, 42997, 1, 1>>, <<65313, 65338, 1, 32>>,
    <<66560, 66599, 1, 40>>, <<66736, 66771, 1, 40>>, <<66928, 66938, 1, 39>>,
    <<66940, 66954, 1, 39>>, <<66956, 66962, 1, 39>>, <<66964, 66965, 1, 39>>,
    <<68736, 68786, 1, 64>>, <<71840, 71871, 1, 32>>, <<93760, 93791, 1, 32>>,
    <<125184, 125217, 1, 34>> >>

\* str.lower() on a character other than U+0130 and U+03A3
LowerChar(c) ==
    LET Shifted(runs) ==
            LET hits == {k \in DOMAIN runs : /\ runs[k][1] <= c
                                             /\ c <= runs[k][2]
                                             /\ (c - runs[k][1]) % runs[k][3] = 0}
            IN  IF hits = {} THEN c ELSE c + runs[CHOOSE k \in hits : TRUE][4]
    IN  IF c < 128 THEN (IF c \in UpperChars THEN c + 32 ELSE c)
        ELSE Shifted(LowerRuns)

\* the characters str.lower() skips when it looks for the letters around a
\* capital sigma, and the cased characters among those it does not skip
CaseIgnorableRuns == <<
    <<39, 39>>, <<46, 46>>, <<58, 58>>, <<94, 94>>, <<96, 96>>, <<168, 168>>, <<173, 173>>,
    <<175, 175>>, <<180, 180>>, <<183, 184>>, <<688, 879>>, <<884, 885>>, <<890, 890>>,
    <<900, 901>>, <<903, 903>>, <<1155, 1161>>, <<1369, 1369>>, <<1375, 1375>>, <<1425, 1469>>,
    <<1471, 1471>>, <<1473, 1474>>, <<1476, 1477>>, <<1479, 1479>>, <<1524, 1524>>,
    <<1536, 1541>>, <<1552, 1562>>, <<1564, 1564>>, <<1600, 1600>>, <<1611, 1631>>,
    <<1648, 1648>>, <<1750, 1757>>, <<1759, 1768>>, <<1770, 1773>>, <<1807, 1807>>,
    <<1809, 1809>>, <<1840, 1866>>, <<1958, 1968>>, <<2027, 2037>>, <<2042, 2042>>,
    <<2045, 2045>>, <<2070, 2093>>, <<2137, 2139>>, <<2184, 2184>>, <<2192, 2193>>,
    <<2200, 2207>>, <<2249, 2306>>, <<2362, 2362>>, <<2364, 2364>>, <<2369, 2376>>,
    <<2381, 2381>>, <<2385, 2391>>, <<2402, 2403>>, <<2417, 2417>>, <<2433, 2433>>,
    <<2492, 2492>>, <<2497, 2500>>, <<2509, 2509>>, <<2530, 2531>>, <<2558, 2558>>,
    <<2561, 2562>>, <<2620, 2620>>, <<2625, 2626>>, <<2631, 2632>>, <<2635, 2637>>,
    <<2641, 2641>>, <<2672, 2673>>, <<2677, 2677>>, <<2689, 2690>>, <<2748, 2748>>,
    <<2753, 2757>>, <<2759, 2760>>, <<2765, 2765>>, <<2786, 2787>>, <<2810, 2815>>,
    <<2817, 2817>>, <<2876, 2876>>, <<2879, 2879>>, <<2881, 2884>>, <<2893, 2893>>,
    <<2901, 2902>>, <<2914, 2915>>, <<2946, 2946>>, <<3008, 3008>>, <<3021, 3021>>,
    <<3072, 3072>>, <<3076, 3076>>, <<3132, 3132>>, <<3134, 3136>>, <<3142, 3144>>,
    <<3146, 3149>>, <<3157, 3158>>, <<3170, 3171>>, <<3201, 3201>>, <<3260, 3260>>,
    <<3263, 3263>>, <<3270, 3270>>, <<3276, 3277>>, <<3298, 3299>>, <<3328, 3329>>,
    <<3387, 3388>>, <<3393, 3396>>, <<3405, 3405>>, <<3426, 3427>>, <<3457, 3457>>,
    <<3530, 3530>>, <<3538, 3540>>, <<3542, 3542>>, <<3633, 3633>>, <<3636, 3642>>,
    <<3654, 3662>>, <<3761, 3761>>, <<3764, 3772>>, <<3782, 3782>>, <<3784, 3789>>,
    <<3864, 3865>>, <<3893, 3893>>, <<3895, 3895>>, <<3897, 3897>>, <<3953, 3966>>,
    <<3968, 3972>>, <<3974, 3975>>, <<3981, 3991>>, <<3993, 4028>>, <<4038, 4038>>,
    <<4141, 4144>>, <<4146, 4151>>, <<4153, 4154>>, <<4157, 4158>>, <<4184, 4185>>,
    <<4190, 4192>>, <<4209, 4212>>, <<4226, 4226>>, <<4229, 4230>>, <<4237, 4237>>,
    <<4253, 4253>>, <<4348, 4348>>, <<4957, 4959>>, <<5906, 5908>>, <<5938, 5939>>,
    <<5970, 5971>>, <<6002, 6003>>, <<6068, 6069>>, <<6071, 6077>>, <<6086, 6086>>,
    <<6089, 6099>>, <<6103, 6103>>, <<6109, 6109>>, <<6155, 6159>>, <<6211, 6211>>,
    <<6277, 6278>>, <<6313, 6313>>, <<6432, 6434>>, <<6439, 6440>>, <<6450, 6450>>,
    <<6457, 6459>>, <<6679, 6680>>, <<6683, 6683>>, <<6742, 6742>>, <<6744, 6750>>,
    <<6752, 6752>>, <<6754, 6754>>, <<6757, 6764>>, <<6771, 6780>>, <<6783, 6783>>,
    <<6823, 6823>>, <<6832, 6862>>, <<6912, 6915>>, <<6964, 6964>>, <<6966, 6970>>,
    <<6972, 6972>>, <<6978, 6978>>, <<7019, 7027>>, <<7040, 7041>>, <<7074, 7077>>,
    <<7080, 7081>>, <<7083, 7085>>, <<7142, 7142>>, <<7144, 7145>>, <<7149, 7149>>,
    <<7151, 7153>>, <<7212, 7219>>, <<7222, 7223>>, <<7288, 7293>>, <<7376, 7378>>,
    <<7380, 7392>>, <<7394, 7400>>, <<7405, 7405>>, <<7412, 7412>>, <<7416, 7417>>,
    <<7468, 7530>>, <<7544, 7544>>, <<7579, 7679>>, <<8125, 8125>>, <<8127, 8129>>,
    <<8141, 8143>>, <<8157, 8159>>, <<8173, 8175>>, <<8189, 8190>>, <<8203, 8207>>,
    <<8216, 8217>>, <<8228, 8228>>, <<8231, 8231>>, <<8234, 8238>>, <<8288, 8292>>,
    <<8294, 8303>>, <<8305, 8305>>, <<8319, 8319>>, <<8336, 8348>>, <<8400, 8432>>,
    <<11388, 11389>>, <<11503, 11505>>, <<11631, 11631>>, <<11647, 11647>>, <<11744, 11775>>,
    <<11823, 11823>>, <<12293, 12293>>, <<12330, 12333>>, <<12337, 12341>>, <<12347, 12347>>,
    <<12441, 12446>>, <<12540, 12542>>, <<40981, 40981>>, <<42232, 42237>>, <<42508, 42508>>,
    <<42607, 42610>>, <<42612, 42621>>, <<42623, 42623>>, <<42652, 42655>>, <<42736, 42737>>,
    <<42752, 42785>>, <<42864, 42864>>, <<42888, 42890>>, <<42994, 42996>>, <<43000, 43001>>,
    <<43010, 43010>>, <<43014, 43014>>, <<43019, 43019>>, <<43045, 43046>>, <<43052, 43052>>,
    <<43204, 43205>>, <<43232, 43249>>, <<43263, 43263>>, <<43302, 43309>>, <<43335, 43345>>,
    <<43392, 43394>>, <<43443, 43443>>, <<43446, 43449>>, <<43452, 43453>>, <<43471, 43471>>,
    <<43493, 43494>>, <<43561, 43566>>, <<43569, 43570>>, <<43573, 43574>>, <<43587, 43587>>,
    <<43596, 43596>>, <<43632, 43632>>, <<43644, 43644>>, <<43696, 43696>>, <<43698, 43700>>,
    <<43703, 43704>>, <<43710, 43711>>, <<43713, 43713>>, <<43741, 43741>>, <<43756, 43757>>,
    <<43763, 43764>>, <<43766, 43766>>, <<43867, 43871>>, <<43881, 43883>>, <<44005, 44005>>,
    <<44008, 44008>>, <<44013, 44013>>, <<64286, 64286>>, <<64434, 64450>>, <<65024, 65039>>,
    <<65043, 65043>>, <<65056, 65071>>, <<65106, 65106>>, <<65109, 65109>>, <<65279, 65279>>,
    <<65287, 65287>>, <<65294, 65294>>, <<65306, 65306>>, <<65342, 65342>>, <<65344, 65344>>,
    <<65392, 65392>>, <<65438, 65439>>, <<65507, 65507>>, <<65529, 65531>>, <<66045, 66045>>,
    <<66272, 66272>>, <<66422, 66426>>, <<67456, 67461>>, <<67463, 67504>>, <<67506, 67514>>,
    <<68097, 68099>>, <<68101, 68102>>, <<68108, 68111>>, <<68152, 68154>>, <<68159, 68159>>,
    <<68325, 68326>>, <<68900, 68903>>, <<69291, 69292>>, <<69446, 69456>>, <<69506, 69509>>,
    <<69633, 69633>>, <<69688, 69702>>, <<69744, 69744>>, <<69747, 69748>>, <<69759, 69761>>,
    <<69811, 69814>>, <<69817, 69818>>, <<69821, 69821>>, <<69826, 69826>>, <<69837, 69837>>,
    <<69888, 69890>>, <<69927, 69931>>, <<69933, 69940>>, <<70003, 70003>>, <<70016, 70017>>,
    <<70070, 70078>>, <<70089, 70092>>, <<70095, 70095>>, <<70191, 70193>>, <<70196, 70196>>,
    <<70198, 70199>>, <<70206, 70206>>, <<70367, 70367>>, <<70371, 70378>>, <<70400, 70401>>,
    <<70459, 70460>>, <<70464, 70464>>, <<70502, 70508>>, <<70512, 70516>>, <<70712, 70719>>,
    <<70722, 70724>>, <<70726, 70726>>, <<70750, 70750>>, <<70835, 70840>>, <<70842, 70842>>,
    <<70847, 70848>>, <<70850, 70851>>, <<71090, 71093>>, <<71100, 71101>>, <<71103, 71104>>,
    <<71132, 71133>>, <<71219, 71226>>, <<71229, 71229>>, <<71231, 71232>>, <<71339, 71339>>,
    <<71341, 71341>>, <<71344, 71349>>, <<71351, 71351>>, <<71453, 71455>>, <<71458, 71461>>,
    <<71463, 71467>>, <<71727, 71735>>, <<71737, 71738>>, <<71995, 71996>>, <<71998, 71998>>,
    <<72003, 72003>>, <<72148, 72151>>, <<72154, 72155>>, <<72160, 72160>>, <<72193, 72202>>,
    <<72243, 72248>>, <<72251, 72254>>, <<72263, 72263>>, <<72273, 72278>>, <<72281, 72283>>,
    <<72330, 72342>>, <<72344, 72345>>, <<72752, 72758>>, <<72760, 72765>>, <<72767, 72767>>,
    <<72850, 72871>>, <<72874, 72880>>, <<72882, 72883>>, <<72885, 72886>>, <<73009, 73014>>,
    <<73018, 73018>>, <<73020, 73021>>, <<73023, 73029>>, <<73031, 73031>>, <<73104, 73105>>,
    <<73109, 73109>>, <<73111, 73111>>, <<73459, 73460>>, <<78896, 78904>>, <<92912, 92916>>,
    <<92976, 92982>>, <<92992, 92995>>, <<94031, 94031>>, <<94095, 94111>>, <<94176, 94177>>,
    <<94179, 94180>>, <<110576, 110579>>, <<110581, 110587>>, <<110589, 110590>>,
    <<113821, 113822>>, <<113824, 113827>>, <<118528, 118573>>, <<118576, 118598>>,
    <<119143, 119145>>, <<119155, 119170>>, <<119173, 119179>>, <<119210, 119213>>,
    <<119362, 119364>>, <<121344, 121398>>, <<121403, 121452>>, <<121461, 121461>>,
    <<121476, 121476>>, <<121499, 121503>>, <<121505, 121519>>, <<122880, 122886>>,
    <<122888, 122904>>, <<122907, 122913>>, <<122915, 122916>>, <<122918, 122922>>,
    <<123184, 123197>>, <<123566, 123566>>, <<123628, 123631>>, <<125136, 125142>>,
    <<125252, 125259>>, <<127995, 127999>>, <<917505, 917505>>, <<917536, 917631>>,
    <<917760, 917999>> >>

CasedRuns == <<
    <<65, 90>>, <<97, 122>>, <<170, 170>>, <<181, 181>>, <<186, 186>>, <<192, 214>>,
    <<216, 246>>, <<248, 442>>, <<444, 447>>, <<452, 659>>, <<661, 687>>, <<880, 883>>,
    <<886, 887>>, <<891, 893>>, <<895, 895>>, <<902, 902>>, <<904, 906>>, <<908, 908>>,
    <<910, 929>>, <<931, 1013>>, <<1015, 1153>>, <<1162, 1327>>, <<1329, 1366>>,
    <<1376, 1416>>, <<4256, 4293>>, <<4295, 4295>>, <<4301, 4301>>, <<4304, 4346>>,
    <<4349, 4351>>, <<5024, 5109>>, <<5112, 5117>>, <<7296, 7304>>, <<7312, 7354>>,
    <<7357, 7359>>, <<7424, 7467>>, <<7531, 7543>>, <<7545, 7578>>, <<7680, 7957>>,
    <<7960, 7965>>, <<7968, 8005>>, <<8008, 8013>>, <<8016, 8023>>, <<8025, 8025>>,
    <<8027, 8027>>, <<8029, 8029>>, <<8031, 8061>>, <<8064, 8116>>, <<8118, 8124>>,
    <<8126, 8126>>, <<8130, 8132>>, <<8134, 8140>>, <<8144, 8147>>, <<8150, 8155>>,
    <<8160, 8172>>, <<8178, 8180>>, <<8182, 8188>>, <<8450, 8450>>, <<8455, 8455>>,
    <<8458, 8467>>, <<8469, 8469>>, <<8473, 8477>>, <<8484, 8484>>, <<8486, 8486>>,
    <<8488, 8488>>, <<8490, 8493>>, <<8495, 8500>>, <<8505, 8505>>, <<8508, 8511>>,
    <<8517, 8521>>, <<8526, 8526>>, <<8544, 8575>>, <<8579, 8580>>, <<9398, 9449>>,
    <<11264, 11387>>, <<11390, 11492>>, <<11499, 11502>>, <<11506, 11507>>, <<11520, 11557>>,
    <<11559, 11559>>, <<11565, 11565>>, <<42560, 42605>>, <<42624, 42651>>, <<42786, 42863>>,
    <<42865, 42887>>, <<42891, 42894>>, <<42896, 42954>>, <<42960, 42961>>, <<42963, 42963>>,
    <<42965, 42969>>, <<42997, 42998>>, <<43002, 43002>>, <<43824, 43866>>, <<43872, 43880>>,
    <<43888, 43967>>, <<64256, 64262>>, <<64275, 64279>>, <<65313, 65338>>, <<65345, 65370>>,
    <<66560, 66639>>, <<66736, 66771>>, <<66776, 66811>>, <<66928, 66938>>, <<66940, 66954>>,
    <<66956, 66962>>, <<66964, 66965>>, <<66967, 66977>>, <<66979, 66993>>, <<66995, 67001>>,
    <<67003, 67004>>, <<68736, 68786>>, <<68800, 68850>>, <<71840, 71903>>, <<93760, 93823>>,
    <<119808, 119892>>, <<119894, 119964>>, <<119966, 119967>>, <<119970, 119970>>,
    <<119973, 119974>>, <<119977, 119980>>, <<119982, 119993>>, <<119995, 119995>>,
    <<119997, 120003>>, <<120005, 120069>>, <<120071, 120074>>, <<120077, 120084>>,
    <<120086, 120092>>, <<120094, 120121>>, <<120123, 120126>>, <<120128, 120132>>,
    <<120134, 120134>>, <<120138, 120144>>, <<120146, 120485>>, <<120488, 120512>>,
    <<120514, 120538>>, <<120540, 120570>>, <<120572, 120596>>, <<120598, 120628>>,
    <<120630, 120654>>, <<120656, 120686>>, <<120688, 120712>>, <<120714, 120744>>,
    <<120746, 120770>>, <<120772, 120779>>, <<122624, 122633>>, <<122635, 122654>>,
    <<125184, 125251>>, <<127280, 127305>>, <<127312, 127337>>, <<127344, 127369>> >>

\* whether the capital sigma at s[i] ends a word: a cased letter before it,
\* none after it
FinalSigma(s, i) ==
    LET Ends(ignorable, cased) ==
            LET before == {j \in 1..(i - 1) : ~InRuns(s[j], ignorable)}
                after == {j \in (i + 1)..Len(s) : ~InRuns(s[j], ignorable)}
            IN  /\ before # {}
                /\ InRuns(s[CHOOSE j \in before : \A k \in before : j >= k], cased)
                /\ \/ after = {}
                   \/ ~InRuns(s[CHOOSE j \in after : \A k \in after : j <= k], cased)
    IN  Ends(CaseIgnorableRuns, CasedRuns)

\* what s[i] becomes in s.lower()
LowerAt(s, i) ==
    IF s[i] = 931 THEN <<IF FinalSigma(s, i) THEN 962 ELSE 963>>
    ELSE IF s[i] = 304 THEN <<105, 775>>
    ELSE <<LowerChar(s[i])>>

\* the lower case of s[lo..hi], each character within the whole of s
RECURSIVE LowerRange(_, _, _)
LowerRange(s, lo, hi) ==
    IF lo > hi THEN << >>
    ELSE IF lo = hi THEN LowerAt(s, lo)
    ELSE LowerRange(s, lo, (lo + hi) \div 2) \o LowerRange(s, (lo + hi) \div 2 + 1, hi)

\* s.lower()
Lower(s) == LowerRange(s, 1, Len(s))

\* s[i-1:] in Python terms: the suffix of s that starts at position i
From(s, i) == SubSeq(s, i, Len(s))

\* s.startswith(p)
StartsWith(s, p) == Len(p) <= Len(s) /\ SubSeq(s, 1, Len(p)) = p

\* how many of s[lo], s[lo + 1], ... s[hi] in a row, from lo on, are in cls
\* (member) or are outside it (~member)
RECURSIVE RunLen(_, _, _, _, _)
RunLen(s, lo, hi, cls, member) ==
    IF lo > hi THEN 0
    ELSE IF lo = hi THEN (IF (s[lo] \in cls) = member THEN 1 ELSE 0)
    ELSE LET mid == (lo + hi) \div 2
             Rest(n) == IF n < mid - lo + 1 THEN n
                        ELSE n + RunLen(s, mid + 1, hi, cls, member)
         IN  Rest(RunLen(s, lo, mid, cls, member))

\* how many of s[hi], s[hi - 1], ... s[lo] in a row, from hi down, are in cls
RECURSIVE RunLenBack(_, _, _, _)
RunLenBack(s, lo, hi, cls) ==
    IF lo > hi THEN 0
    ELSE IF lo = hi THEN (IF s[hi] \in cls THEN 1 ELSE 0)
    ELSE LET mid == (lo + hi) \div 2
             Rest(n) == IF n < hi - mid THEN n ELSE n + RunLenBack(s, lo, mid, cls)
         IN  Rest(RunLenBack(s, mid + 1, hi, cls))

\* sub in s
Contains(s, sub) ==
    \E i \in 1..(Len(s) - Len(sub) + 1) : \A k \in 1..Len(sub) : s[i + k - 1] = sub[k]

\* s.strip()
Strip(s) ==
    LET Kept(lo) == IF lo > Len(s) THEN << >>
                    ELSE SubSeq(s, lo, Len(s) - RunLenBack(s, lo, Len(s), Whitespace))
    IN  Kept(1 + RunLen(s, 1, Len(s), Whitespace, TRUE))

\* s.replace(c, '') for a one-character c
RemoveChar(s, c) == SelectSeq(s, LAMBDA x : x # c)

\* s.split(c) for a one-character separator c: never an empty list
RECURSIVE SplitOn(_, _)
SplitOn(s, c) ==
    IF \A i \in 1..Len(s) : s[i] # c THEN <<s>>
    ELSE LET k == CHOOSE i \in 1..Len(s) :
                      s[i] = c /\ \A j \in 1..(i - 1) : s[j] # c
         IN  <<SubSeq(s, 1, k - 1)>> \o SplitOn(From(s, k + 1), c)

\* s.split(): the maximal runs of non-whitespace; an empty list when s has none
RECURSIVE SplitWs(_)
SplitWs(s) ==
    LET keep == {i \in 1..Len(s) : s[i] \notin Whitespace}
    IN  IF keep = {} THEN << >>
        ELSE LET lo == CHOOSE i \in keep : \A j \in keep : i <= j
                 stop == {i \in lo..Len(s) : s[i] \in Whitespace}
                 hi == IF stop = {} THEN Len(s)
                       ELSE (CHOOSE i \in stop : \A j \in stop : i <= j) - 1
             IN  <<SubSeq(s, lo, hi)>> \o SplitWs(From(s, hi + 1))

\* the end of the maximal run of characters of cls that starts at i (i - 1 if none)
RunEnd(s, i, cls) == i - 1 + RunLen(s, i, Len(s), cls, TRUE)

\* where a match of [A-Z][a-z]+ [A-Z][a-z]+ that starts at i ends; 0 if there is none
NameMatchEnd(s, i) ==
    IF i > Len(s) \/ s[i] \notin UpperChars THEN 0
    ELSE LET a == RunEnd(s, i + 1, LowerChars)
         IN  IF a < i + 1 \/ a + 2 > Len(s) THEN 0
             ELSE IF s[a + 1] # 32 (* space *) \/ s[a + 2] \notin UpperChars THEN 0
             ELSE LET b == RunEnd(s, a + 3, LowerChars)
                  IN  IF b < a + 3 THEN 0 ELSE b

\* re.findall(r'[A-Z][a-z]+ [A-Z][a-z]+', s): leftmost, non-overlapping matches
RECURSIVE FindNamesFrom(_, _)
FindNamesFrom(s, i) ==
    IF i > Len(s) THEN << >>
    ELSE LET e == NameMatchEnd(s, i)
         IN  IF e = 0 THEN FindNamesFrom(s, i + 1)
             ELSE <<SubSeq(s, i, e)>> \o FindNamesFrom(s, e + 1)

FindNames(s) == FindNamesFrom(s, 1)

\* int() of a string of decimal digits, for an int the checker's integers hold
RECURSIVE DigitsToInt(_)
DigitsToInt(ds) ==
    IF ds = << >> THEN 0
    ELSE 10 * DigitsToInt(SubSeq(ds, 1, Len(ds) - 1)) + DigitVal(ds[Len(ds)])

\* str(n) of an int n >= 0
RECURSIVE IntToStr(_)
IntToStr(n) ==
    IF n < 10 THEN <<48 + n>> ELSE IntToStr(n \div 10) \o <<48 + (n % 10)>>

\* how many zeros ds starts with
RECURSIVE LeadingZeros(_)
LeadingZeros(ds) ==
    IF Len(ds) < 2 THEN (IF ds = <<48>> (* 0 *) THEN 1 ELSE 0)
    ELSE LET h == Len(ds) \div 2
             Right(l) == IF l < h THEN l ELSE h + LeadingZeros(SubSeq(ds, h + 1, Len(ds)))
         IN  Right(LeadingZeros(SubSeq(ds, 1, h)))

\* how many zeros ds ends with
RECURSIVE TrailingZeros(_)
TrailingZeros(ds) ==
    IF Len(ds) < 2 THEN (IF ds = <<48>> (* 0 *) THEN 1 ELSE 0)
    ELSE LET h == Len(ds) \div 2
             Left(r) == IF r < Len(ds) - h THEN r ELSE r + TrailingZeros(SubSeq(ds, 1, h))
         IN  Left(TrailingZeros(SubSeq(ds, h + 1, Len(ds))))

\* ds without the zeros it starts with
StripLeadingZeros(ds) == SubSeq(ds, LeadingZeros(ds) + 1, Len(ds))

\* ds without the zeros it ends with
StripTrailingZeros(ds) == SubSeq(ds, 1, Len(ds) - TrailingZeros(ds))

\* the digits int() accepts in one str, sys.get_int_max_str_digits()
MaxStrDigits == 4300

\* str(e) of the ValueError int() raises for a str of n digits, n > MaxStrDigits
IntLimitText(n) ==
    <<69, 120, 99, 101, 101, 100, 115, 32, 116, 104, 101, 32, 108, 105, 109, 105, 116, 32, 40>> (* Exceeds the limit ? *) \o IntToStr(MaxStrDigits)
        \o <<32, 100, 105, 103, 105, 116, 115, 41, 32, 102, 111, 114, 32, 105, 110, 116, 101, 103, 101, 114, 32, 115, 116, 114, 105, 110, 103, 32, 99, 111, 110, 118, 101, 114, 115, 105, 111, 110, 58, 32, 118, 97, 108, 117, 101, 32, 104, 97, 115, 32>> (*  digits? for integer string conversion: value has  *) \o IntToStr(n)
        \o <<32, 100, 105, 103, 105, 116, 115, 59, 32, 117, 115, 101, 32, 115, 121, 115, 46, 115, 101, 116, 95, 105, 110, 116, 95, 109, 97, 120, 95, 115, 116, 114, 95, 100, 105, 103, 105, 116, 115, 40, 41, 32, 116, 111, 32, 105, 110, 99, 114, 101, 97, 115, 101, 32, 116, 104, 101, 32, 108, 105, 109, 105, 116>> (*  digits; use sys.set_int_max_str_digits?? to increase the limit *)

\* str(int(ds)) for a str ds of decimal digits, of any script
IntText(ds) ==
    LET Canonical(ascii) == IF ascii = << >> THEN <<48>> (* 0 *) ELSE ascii
    IN  Canonical(StripLeadingZeros([k \in DOMAIN ds |-> 48 (* 0 *) + DigitVal(ds[k])]))

\* ds * k + c digit by digit, for ds the decimal digits of an int and
\* 0 < k < 2^27: as many digits as ds has, and what is carried out of them
RECURSIVE MulAddRun(_, _, _)
MulAddRun(ds, k, c) ==
    IF Len(ds) = 0 THEN [carry |-> c, digits |-> << >>]
    ELSE IF Len(ds) = 1
    THEN LET Digit(x) == [carry |-> x \div 10, digits |-> <<48 (* 0 *) + (x % 10)>>]
         IN  Digit((ds[1] - 48 (* 0 *)) * k + c)
    ELSE LET h == Len(ds) \div 2
             Left(r) ==
                 LET Joined(l) == [carry |-> l.carry, digits |-> l.digits \o r.digits]
                 IN  IF r.carry = 0 /\ k = 1
                     THEN [carry |-> 0, digits |-> SubSeq(ds, 1, h) \o r.digits]
                     ELSE Joined(MulAddRun(SubSeq(ds, 1, h), k, r.carry))
         IN  Left(MulAddRun(SubSeq(ds, h + 1, Len(ds)), k, c))

\* str(n * k + c) for ds = str(n), n >= 0, 0 < k < 2^27 and n * k + c >= 0
MulAdd(ds, k, c) ==
    LET Canonical(all) == IF all = << >> THEN <<48>> (* 0 *) ELSE all
        Whole(r) == Canonical(StripLeadingZeros(
                        (IF r.carry > 0 THEN IntToStr(r.carry) ELSE << >>) \o r.digits))
    IN  Whole(MulAddRun(ds, k, c))

\* min(n, cap) for ds = str(n), n >= 0, and an int cap of at most nine digits
MinNat(ds, cap) == IF Len(ds) > 9 THEN cap ELSE Min(DigitsToInt(ds), cap)

\* re.search(r'\d+', text): the first maximal run of digits, if any
FirstInt(text) ==
    LET Match(lo) ==
            IF lo > Len(text) THEN [found |-> FALSE, group |-> << >>]
            ELSE [found |-> TRUE, group |-> SubSeq(text, lo, RunEnd(text, lo, DigitChars))]
    IN  Match(1 + RunLen(text, 1, Len(text), DigitChars, FALSE))
(***************************************************************************)
(* json.loads.  A Python object is [t |-> the name of its type, v |-> its  *)
(* content]: the content of a str is its code points, of a list its        *)
(* elements, of a dict its <<key, value>> items in insertion order (a key  *)
(* is the code points of the str), of a float the text repr() gives it.    *)
(***************************************************************************)
JNull == [t |-> "NoneType", v |-> FALSE]
JBool(b) == [t |-> "bool", v |-> b]
JNum(n) == [t |-> "int", v |-> n]       \* n is str(the int)
JFloat(r) == [t |-> "float", v |-> r]
JStr(s) == [t |-> "str", v |-> s]
JList(l) == [t |-> "list", v |-> l]
JObj(m) == [t |-> "dict", v |-> m]

\* type(x).__name__
TypeName(x) ==
    CASE x.t = "NoneType" -> <<78, 111, 110, 101, 84, 121, 112, 101>> (* NoneType *)
      [] x.t = "bool"     -> <<98, 111, 111, 108>> (* bool *)
      [] x.t = "int"      -> <<105, 110, 116>> (* int *)
      [] x.t = "float"    -> <<102, 108, 111, 97, 116>> (* float *)
      [] x.t = "str"      -> <<115, 116, 114>> (* str *)
      [] x.t = "list"     -> <<108, 105, 115, 116>> (* list *)
      [] x.t = "dict"     -> <<100, 105, 99, 116>> (* dict *)

\* the whitespace and the digits of JSON
JsonWs == {32 (* space *), 9 (* tab *), 10 (* newline *), 13 (* carriage return *)}
AsciiDigits == 48..57

\* a scan that raised JSONDecodeError(msg, doc, at); at counts from 0
ParseFail(msg, at) ==
    [ok |-> FALSE, val |-> JNull, next |-> 0, error |-> "JSONDecodeError", msg |-> msg, at |-> at]

\* a scan that raised the ValueError of int() on an integer of n digits
IntFail(n) ==
    [ok |-> FALSE, val |-> JNull, next |-> 0, error |-> "ValueError",
     msg |-> IntLimitText(n), at |-> 0]

\* sys.getrecursionlimit()
RecursionLimit == 1000

\* the Python frames in use when the scanner starts, the program being run as
\* the script: the module, run_biotech_pipeline, the stage's function,
\* json.loads, JSONDecoder.decode and JSONDecoder.raw_decode
ScannerFrames == 6

\* the arrays and objects the scanner can be inside of at once: entering one
\* more raises RecursionError
MaxNesting == RecursionLimit - 1 - ScannerFrames

\* a scan that raised RecursionError; `where` is what the call that went past
\* the limit adds to the message
RecursionFail(where) ==
    [ok |-> FALSE, val |-> JNull, next |-> 0, error |-> "RecursionError",
     msg |-> <<109, 97, 120, 105, 109, 117, 109, 32, 114, 101, 99, 117, 114, 115, 105, 111, 110, 32, 100, 101, 112, 116, 104, 32, 101, 120, 99, 101, 101, 100, 101, 100>> (* maximum recursion depth exceeded *) \o where, at |-> 0]

\* the scanner entering an array or an object
Entering(kind) == <<32, 119, 104, 105, 108, 101, 32, 100, 101, 99, 111, 100, 105, 110, 103, 32, 97, 32, 74, 83, 79, 78, 32>> (*  while decoding a JSON  *) \o kind \o <<32, 102, 114, 111, 109, 32, 97, 32, 117, 110, 105, 99, 111, 100, 101, 32, 115, 116, 114, 105, 110, 103>> (*  from a unicode string *)

\* a call of a callable that is not a Python function
Calling == <<32, 119, 104, 105, 108, 101, 32, 99, 97, 108, 108, 105, 110, 103, 32, 97, 32, 80, 121, 116, 104, 111, 110, 32, 111, 98, 106, 101, 99, 116>> (*  while calling a Python object *)

\* a result r of the scanner inside `depth` arrays and objects, where a
\* JSONDecodeError is made by the scanner itself: that takes the call of the
\* class, the frame of JSONDecodeError.__init__ and the call of doc.count in it
Thrown(r, depth) ==
    IF r.error # "JSONDecodeError" \/ depth < MaxNesting - 2 THEN r
    ELSE RecursionFail(IF depth = MaxNesting - 1 THEN << >> ELSE Calling)

\* parse_constant(name), a call the scanner makes
Constant(r, depth) == IF depth >= MaxNesting THEN RecursionFail(Calling) ELSE r

\* a scan that gave val and stopped before position next
Parsed(val, next) ==
    [ok |-> TRUE, val |-> val, next |-> next, error |-> "None", msg |-> << >>, at |-> 0]

\* the first position at or after i that holds no JSON whitespace
SkipWs(s, i) == RunEnd(s, i, JsonWs) + 1

\* str(JSONDecodeError(msg, doc, at))
ErrorText(doc, msg, at) ==
    LET newlines == {k \in 1..at : doc[k] = 10 (* newline *)}
        lineno == Cardinality(newlines) + 1
        colno == IF newlines = {} THEN at + 1
                 ELSE at + 1 - (CHOOSE k \in newlines : \A j \in newlines : k >= j)
    IN  msg \o <<58, 32, 108, 105, 110, 101, 32>> (* : line  *) \o IntToStr(lineno) \o <<32, 99, 111, 108, 117, 109, 110, 32>> (*  column  *) \o IntToStr(colno)
            \o <<32, 40, 99, 104, 97, 114, 32>> (*  ?char  *) \o IntToStr(at) \o <<41>> (* ? *)

\* str(e) of the exception a failed scan r of doc raised
FailureText(doc, r) ==
    IF r.error = "JSONDecodeError" THEN ErrorText(doc, r.msg, r.at) ELSE r.msg

(***************************************************************************)
(* float(text) of a JSON number with a fraction or an exponent, as the     *)
(* text repr() gives the float.  float() gives the double nearest to the   *)
(* number written, the even one of two equally near; repr() writes the     *)
(* shortest digits that float() reads back as that double, and of those    *)
(* the nearest to it.  A double is m x 2^q with 2^52 <= m < 2^53, or with  *)
(* a smaller m at q = -1074; m is held as the str of its digits.           *)
(***************************************************************************)
Pow52 == <<52, 53, 48, 51, 53, 57, 57, 54, 50, 55, 51, 55, 48, 52, 57, 54>> (* 4503599627370496 *)
Pow53 == <<57, 48, 48, 55, 49, 57, 57, 50, 53, 52, 55, 52, 48, 57, 57, 50>> (* 9007199254740992 *)

\* the least and the greatest q of a double m x 2^q
MinExp2 == 0 - 1074
MaxExp2 == 971

\* the exponents beyond which no digit count changes the float's fate
ExponentCap == 100000000

Zeros(n) == [k \in 1..n |-> 48 (* 0 *)]

\* the order of the ints a and b write: -1, 0 or 1
NatCmp(a, b) ==
    LET First(k) == IF k > Len(a) THEN 0 ELSE IF a[k] < b[k] THEN 0 - 1 ELSE 1
    IN  IF Len(a) # Len(b) THEN (IF Len(a) < Len(b) THEN 0 - 1 ELSE 1)
        ELSE First(Cardinality({k \in 1..Len(a) : \A j \in 1..k : a[j] = b[j]}) + 1)

\* str(n * base^e) for ds = str(n), taking base^step at a time
RECURSIVE TimesPow(_, _, _, _)
TimesPow(ds, base, step, e) ==
    IF ds = <<48>> (* 0 *) \/ e = 0 THEN ds
    ELSE IF e >= step THEN TimesPow(MulAdd(ds, base ^ step, 0), base, step, e - step)
    ELSE MulAdd(ds, base ^ e, 0)

TimesPow2(ds, e) == TimesPow(ds, 2, 27, e)
TimesPow5(ds, e) == TimesPow(ds, 5, 11, e)

\* the double nearest to a number, given as the quotient num / 10^places of
\* the number by 2^q, for a q that is at most the q of that double: q is
\* raised until the quotient is below 2^53, and the quotient is then rounded
\* to an int, half to even.  m is the str of 0 for zero.
RECURSIVE NearestDouble(_, _, _)
NearestDouble(num, places, q) ==
    LET n == Len(num)
        whole == IF places < n THEN SubSeq(num, 1, n - places) ELSE <<48>> (* 0 *)
        rest == IF places <= n THEN SubSeq(num, n - places + 1, n) ELSE <<48>> (* 0 *)
        odd == (whole[Len(whole)] - 48 (* 0 *)) % 2 = 1
        up == /\ rest # << >>
              /\ \/ rest[1] > 53 (* 5 *)
                 \/ /\ rest[1] = 53 (* 5 *)
                    /\ odd \/ \E k \in 2..Len(rest) : rest[k] # 48 (* 0 *)
        Normal(m) == IF m = Pow53 THEN [m |-> Pow52, q |-> q + 1] ELSE [m |-> m, q |-> q]
    IN  IF NatCmp(whole, Pow53) >= 0 THEN NearestDouble(MulAdd(num, 5, 0), places + 1, q + 1)
        ELSE Normal(IF up THEN MulAdd(whole, 1, 1) ELSE whole)

\* the digits repr() writes for the double whose value, times a power of
\* ten, is the int D, the doubles next to it being twice as far as L below
\* and H above: the first p digits of D or one more in the last place, the
\* nearer to D, for the least p where one lies within L and H, the ends
\* counting when the double is an even one.  len is the digits of the int
\* they stand for.
RECURSIVE ShortestFrom(_, _, _, _, _)
ShortestFrom(D, L, H, even, p) ==
    LET n == Len(D)
        rest == SubSeq(D, p + 1, n)
        floor == SubSeq(D, 1, p)
        ceil == MulAdd(floor, 1, 1)
        okf == NatCmp(floor \o Zeros(n - p), L) >= (IF even THEN 0 ELSE 1)
        okc == NatCmp(ceil \o Zeros(n - p), H) <= (IF even THEN 0 ELSE 0 - 1)
        nearer == \/ rest[1] > 53 (* 5 *)
                  \/ /\ rest[1] = 53 (* 5 *)
                     /\ \/ (D[p] - 48 (* 0 *)) % 2 = 1
                        \/ \E k \in 2..Len(rest) : rest[k] # 48 (* 0 *)
    IN  IF \A k \in DOMAIN rest : rest[k] = 48 (* 0 *) THEN [digits |-> floor, len |-> n]
        ELSE IF ~okf /\ ~okc THEN ShortestFrom(D, L, H, even, p + 1)
        ELSE IF okc /\ (~okf \/ nearer) THEN [digits |-> ceil, len |-> n - p + Len(ceil)]
        ELSE [digits |-> floor, len |-> n]

\* repr() of the positive float d.ddd x 10^e10 whose digits are sig
FloatText(sig, e10) ==
    LET n == Len(sig)
        mag == IF e10 < 0 THEN 0 - e10 ELSE e10
    IN  IF e10 >= 0 - 4 /\ e10 <= 15
        THEN IF e10 >= n - 1 THEN sig \o Zeros(e10 - n + 1) \o <<46, 48>> (* .0 *)
             ELSE IF e10 >= 0 THEN SubSeq(sig, 1, e10 + 1) \o <<46>> (* . *) \o SubSeq(sig, e10 + 2, n)
             ELSE <<48, 46>> (* 0. *) \o Zeros(0 - e10 - 1) \o sig
        ELSE <<sig[1]>> \o (IF n > 1 THEN <<46>> (* . *) \o SubSeq(sig, 2, n) ELSE << >>)
                 \o (IF e10 < 0 THEN <<101, 45>> (* e- *) ELSE <<101, 43>> (* e+ *))
                 \o (IF mag < 10 THEN <<48>> (* 0 *) ELSE << >>) \o IntToStr(mag)

\* repr() of the positive double m x 2^q.  The double is D / 4 x 2^q and its
\* neighbours' midpoints L / 4 x 2^q and H / 4 x 2^q; the lower neighbour of
\* a power of two is half as far.  All three are made ints by the same
\* power of ten.
ShortestText(m, q) ==
    LET s == q - 2
        Scaled(ds) == IF s >= 0 THEN TimesPow2(ds, s) ELSE TimesPow5(ds, 0 - s)
        Text(r) == FloatText(StripTrailingZeros(r.digits),
                             r.len - 1 + (IF s >= 0 THEN 0 ELSE s))
    IN  Text(ShortestFrom(Scaled(MulAdd(m, 4, 0)),
                          Scaled(MulAdd(m, 4, IF m = Pow52 /\ q > MinExp2 THEN 0 - 1 ELSE 0 - 2)),
                          Scaled(MulAdd(m, 4, 2)),
                          (m[Len(m)] - 48 (* 0 *)) % 2 = 0,
                          1))

\* repr(float(text)) for text = [-]int[.frac][e[+-]exp]
FloatRepr(neg, int, frac, expneg, exp) ==
    LET all == int \o frac
        sig == StripTrailingZeros(StripLeadingZeros(all))
        ex == StripLeadingZeros(exp)
        e == IF Len(ex) > 8 THEN ExponentCap ELSE DigitsToInt(ex)
        \* the number is d.ddd x 10^e10, d its first digit that is not 0
        e10 == Len(int) - 1 - LeadingZeros(all) + (IF expneg THEN 0 - e ELSE e)
        \* and the int sig x 10^x
        x == e10 - (Len(sig) - 1)
        \* 2^q is at most the last place of the double
        below == ((e10 * 3321928) \div 1000000) - 53
        q == IF below < MinExp2 THEN MinExp2 ELSE below
        sign == IF neg THEN <<45>> (* - *) ELSE << >>
        Double(d) == IF d.m = <<48>> (* 0 *) THEN <<48, 46, 48>> (* 0.0 *)
                     ELSE IF d.q > MaxExp2 THEN <<105, 110, 102>> (* inf *)
                     ELSE ShortestText(d.m, d.q)
        Quotient(num) == IF q < 0 THEN TimesPow2(num, 0 - q) ELSE TimesPow5(num, q)
    IN  IF sig = << >> THEN sign \o <<48, 46, 48>> (* 0.0 *)
        ELSE IF e10 > 309 THEN sign \o <<105, 110, 102>> (* inf *)
        ELSE IF e10 < 0 - 325 THEN sign \o <<48, 46, 48>> (* 0.0 *)
        ELSE sign \o Double(NearestDouble(Quotient(IF x > 0 THEN sig \o Zeros(x) ELSE sig),
                                          (IF x < 0 THEN 0 - x ELSE 0) + (IF q > 0 THEN q ELSE 0),
                                          q))

(***************************************************************************)
(* The scanner of json.loads (strict, no hooks).                           *)
(***************************************************************************)
HexDigits == (48..57) \cup (65..70) \cup (97..102)

HexVal(c) == IF c <= 57 THEN c - 48 ELSE IF c <= 70 THEN c - 55 ELSE c - 87

\* the code point four hexadecimal digits at s[i..i+3] write
Hex4(s, i) ==
    4096 * HexVal(s[i]) + 256 * HexVal(s[i + 1]) + 16 * HexVal(s[i + 2]) + HexVal(s[i + 3])

\* the character an escape \c stands for; 0 when there is no such escape
EscapeChar(c) ==
    CASE c = 34 (* double quote *) -> 34 (* double quote *)
      [] c = 92 (* backslash *) -> 92 (* backslash *)
      [] c = 47 (* / *) -> 47 (* / *)
      [] c = 98 (* b *) -> 8 (* backspace *)
      [] c = 102 (* f *) -> 12 (* form feed *)
      [] c = 110 (* n *) -> 10 (* newline *)
      [] c = 114 (* r *) -> 13 (* carriage return *)
      [] c = 116 (* t *) -> 9 (* tab *)
      [] OTHER -> 0

\* scanstring: the string literal whose opening quote is at begin, scanned up
\* to position end, acc the characters read so far
RECURSIVE ScanString(_, _, _, _)
ScanString(s, begin, end, acc) ==
    LET stop == {k \in end..Len(s) : s[k] = 34 (* double quote *) \/ s[k] = 92 (* backslash *) \/ s[k] <= 31}
        unterminated == ParseFail(<<85, 110, 116, 101, 114, 109, 105, 110, 97, 116, 101, 100, 32, 115, 116, 114, 105, 110, 103, 32, 115, 116, 97, 114, 116, 105, 110, 103, 32, 97, 116>> (* Unterminated string starting at *), begin - 1)
        badhex == <<73, 110, 118, 97, 108, 105, 100, 32, 92, 117, 88, 88, 88, 88, 32, 101, 115, 99, 97, 112, 101>> (* Invalid ?uXXXX escape *)
    IN  IF stop = {} THEN unterminated
        ELSE LET next == CHOOSE k \in stop : \A j \in stop : k <= j
                 chunk == acc \o SubSeq(s, end, next - 1)
             IN  IF s[next] <= 31 THEN ParseFail(<<73, 110, 118, 97, 108, 105, 100, 32, 99, 111, 110, 116, 114, 111, 108, 32, 99, 104, 97, 114, 97, 99, 116, 101, 114, 32, 97, 116>> (* Invalid control character at *), next - 1)
                 ELSE IF s[next] = 34 (* double quote *) THEN Parsed(JStr(chunk), next + 1)
                 ELSE IF next = Len(s) THEN unterminated
                 ELSE IF s[next + 1] # 117 (* u *)
                 THEN IF EscapeChar(s[next + 1]) = 0
                      THEN ParseFail(<<73, 110, 118, 97, 108, 105, 100, 32, 92, 101, 115, 99, 97, 112, 101>> (* Invalid ?escape *), next - 1)
                      ELSE ScanString(s, begin, next + 2,
                                      Append(chunk, EscapeChar(s[next + 1])))
                 ELSE IF next + 5 >= Len(s) THEN ParseFail(badhex, next)
                 ELSE IF \E k \in (next + 2)..(next + 5) : s[k] \notin HexDigits
                 THEN ParseFail(badhex, next)
                 ELSE LET c == Hex4(s, next + 2)
                      IN  IF /\ c \in 55296..56319
                             /\ next + 11 < Len(s)
                             /\ s[next + 6] = 92 (* backslash *)
                             /\ s[next + 7] = 117 (* u *)
                          THEN IF \E k \in (next + 8)..(next + 11) : s[k] \notin HexDigits
                               THEN ParseFail(badhex, next + 6)
                               ELSE LET c2 == Hex4(s, next + 8)
                                    IN  IF c2 \in 56320..57343
                                        THEN ScanString(s, begin, next + 12,
                                                 Append(chunk, 65536 + (c - 55296) * 1024
                                                                     + (c2 - 56320)))
                                        ELSE ScanString(s, begin, next + 6, Append(chunk, c))
                          ELSE ScanString(s, begin, next + 6, Append(chunk, c))

\* a string literal whose opening quote is at i
ParseString(s, i) == ScanString(s, i, i + 1, << >>)

\* _match_number: -?(0|[1-9][0-9]*)(\.[0-9]+)?([eE][-+]?[0-9]+)? at i, an int
\* when it has neither fraction nor exponent, else a float
\* The integer part is s[d..e]; the fraction, if any, s[e+2..f]; the exponent's
\* digits, if any, s[g..x], after an e and maybe a sign (then g = f + 3).
ParseNumber(s, i) ==
    LET neg == i <= Len(s) /\ s[i] = 45 (* - *)
        d == IF neg THEN i + 1 ELSE i
        Number(e, f, g, x) ==
            IF f > e \/ x > f
            THEN Parsed(JFloat(FloatRepr(neg, SubSeq(s, d, e),
                                         IF f > e THEN SubSeq(s, e + 2, f) ELSE << >>,
                                         g = f + 3 /\ s[f + 2] = 45 (* - *),
                                         IF x > f THEN SubSeq(s, g, x) ELSE << >>)),
                        x + 1)
            ELSE IF e - d + 1 > MaxStrDigits THEN IntFail(e - d + 1)
            ELSE Parsed(JNum((IF neg /\ SubSeq(s, d, e) # <<48>> (* 0 *) THEN <<45>> (* - *) ELSE << >>)
                                 \o SubSeq(s, d, e)),
                        e + 1)
        Exponent(e, f, g) ==
            Number(e, f, g, IF /\ g <= Len(s)
                               /\ s[f + 1] \in {101 (* e *), 69 (* E *)}
                               /\ s[g] \in AsciiDigits
                            THEN RunEnd(s, g, AsciiDigits) ELSE f)
        Fraction(e, f) ==
            Exponent(e, f, IF /\ f + 3 <= Len(s)
                              /\ s[f + 1] \in {101 (* e *), 69 (* E *)}
                              /\ s[f + 2] \in {45 (* - *), 43 (* + *)}
                           THEN f + 3 ELSE f + 2)
        Integer(e) ==
            Fraction(e, IF /\ e + 2 <= Len(s)
                           /\ s[e + 1] = 46 (* . *)
                           /\ s[e + 2] \in AsciiDigits
                        THEN RunEnd(s, e + 2, AsciiDigits) ELSE e)
    IN  IF d > Len(s) \/ s[d] \notin AsciiDigits THEN ParseFail(<<69, 120, 112, 101, 99, 116, 105, 110, 103, 32, 118, 97, 108, 117, 101>> (* Expecting value *), i - 1)
        ELSE Integer(IF s[d] = 48 (* 0 *) THEN d ELSE RunEnd(s, d, AsciiDigits))

\* d[key] = val on the items of a dict: a key already there keeps its place
SetItem(items, key, val) ==
    IF \E k \in DOMAIN items : items[k][1] = key
    THEN [k \in DOMAIN items |-> IF items[k][1] = key THEN <<key, val>> ELSE items[k]]
    ELSE Append(items, <<key, val>>)

RECURSIVE ParseValue(_, _, _)
RECURSIVE ParseElems(_, _, _, _)
RECURSIVE ParseMembers(_, _, _, _)

\* the elements of an array after "[" or ","; i holds the next element, and
\* depth counts the arrays and objects around it
ParseElems(s, i, acc, depth) ==
    LET Element(r) ==
            LET j == SkipWs(s, r.next)
            IN  IF ~r.ok THEN r
                ELSE IF j <= Len(s) /\ s[j] = 93 (* ] *)
                THEN Parsed(JList(Append(acc, r.val)), j + 1)
                ELSE IF j > Len(s) \/ s[j] # 44 (* , *)
                THEN Thrown(ParseFail(<<69, 120, 112, 101, 99, 116, 105, 110, 103, 32, 39, 44, 39, 32, 100, 101, 108, 105, 109, 105, 116, 101, 114>> (* Expecting ',' delimiter *), j - 1), depth)
                ELSE ParseElems(s, SkipWs(s, j + 1), Append(acc, r.val), depth)
    IN  Element(ParseValue(s, i, depth))

\* the members of an object after "{" or ","; i holds the next key
ParseMembers(s, i, acc, depth) ==
    LET Member(k, r) ==
            LET j == SkipWs(s, r.next)
                more == SetItem(acc, k.val.v, r.val)
            IN  IF ~r.ok THEN r
                ELSE IF j <= Len(s) /\ s[j] = 125 (* } *) THEN Parsed(JObj(more), j + 1)
                ELSE IF j > Len(s) \/ s[j] # 44 (* , *)
                THEN Thrown(ParseFail(<<69, 120, 112, 101, 99, 116, 105, 110, 103, 32, 39, 44, 39, 32, 100, 101, 108, 105, 109, 105, 116, 101, 114>> (* Expecting ',' delimiter *), j - 1), depth)
                ELSE ParseMembers(s, SkipWs(s, j + 1), more, depth)
        Key(k) ==
            LET c == SkipWs(s, k.next)
            IN  IF ~k.ok THEN k
                ELSE IF c > Len(s) \/ s[c] # 58 (* : *)
                THEN Thrown(ParseFail(<<69, 120, 112, 101, 99, 116, 105, 110, 103, 32, 39, 58, 39, 32, 100, 101, 108, 105, 109, 105, 116, 101, 114>> (* Expecting ':' delimiter *), c - 1), depth)
                ELSE Member(k, ParseValue(s, SkipWs(s, c + 1), depth))
    IN  IF i > Len(s) \/ s[i] # 34 (* double quote *)
        THEN Thrown(ParseFail(<<69, 120, 112, 101, 99, 116, 105, 110, 103, 32, 112, 114, 111, 112, 101, 114, 116, 121, 32, 110, 97, 109, 101, 32, 101, 110, 99, 108, 111, 115, 101, 100, 32, 105, 110, 32, 100, 111, 117, 98, 108, 101, 32, 113, 117, 111, 116, 101, 115>> (* Expecting property name enclosed in double quotes *), i - 1),
                    depth)
        ELSE Key(Thrown(ParseString(s, i), depth))

\* scan_once: the value that starts at i, inside `depth` arrays and objects.
\* Text that starts like a literal name but is not one goes on to the number
\* match, as every other text does.
ParseValue(s, i, depth) ==
    LET j == SkipWs(s, i + 1)
        Word(word) == StartsWith(From(s, i), word)
    IN  IF i > Len(s) THEN ParseFail(<<69, 120, 112, 101, 99, 116, 105, 110, 103, 32, 118, 97, 108, 117, 101>> (* Expecting value *), i - 1)
        ELSE IF s[i] = 34 (* double quote *) THEN Thrown(ParseString(s, i), depth)
        ELSE IF s[i] = 123 (* { *)
        THEN IF depth >= MaxNesting THEN RecursionFail(Entering(<<111, 98, 106, 101, 99, 116>> (* object *)))
             ELSE IF j <= Len(s) /\ s[j] = 125 (* } *) THEN Parsed(JObj(<< >>), j + 1)
             ELSE ParseMembers(s, j, << >>, depth + 1)
        ELSE IF s[i] = 91 (* [ *)
        THEN IF depth >= MaxNesting THEN RecursionFail(Entering(<<97, 114, 114, 97, 121>> (* array *)))
             ELSE IF j <= Len(s) /\ s[j] = 93 (* ] *) THEN Parsed(JList(<< >>), j + 1)
             ELSE ParseElems(s, j, << >>, depth + 1)
        ELSE IF Word(<<110, 117, 108, 108>> (* null *)) THEN Parsed(JNull, i + 4)
        ELSE IF Word(<<116, 114, 117, 101>> (* true *)) THEN Parsed(JBool(TRUE), i + 4)
        ELSE IF Word(<<102, 97, 108, 115, 101>> (* false *)) THEN Parsed(JBool(FALSE), i + 5)
        ELSE IF Word(<<78, 97, 78>> (* NaN *)) THEN Constant(Parsed(JFloat(<<110, 97, 110>> (* nan *)), i + 3), depth)
        ELSE IF Word(<<73, 110, 102, 105, 110, 105, 116, 121>> (* Infinity *)) THEN Constant(Parsed(JFloat(<<105, 110, 102>> (* inf *)), i + 8), depth)
        ELSE IF Word(<<45, 73, 110, 102, 105, 110, 105, 116, 121>> (* -Infinity *)) THEN Constant(Parsed(JFloat(<<45, 105, 110, 102>> (* -inf *)), i + 9), depth)
        ELSE ParseNumber(s, i)

\* json.loads(text): ok is FALSE where it raises, `error` naming the exception;
\* a JSONDecodeError is JSONDecodeError(msg, text, at)
JsonLoads(text) ==
    IF text # << >> /\ text[1] = 65279
    THEN ParseFail(<<85, 110, 101, 120, 112, 101, 99, 116, 101, 100, 32, 85, 84, 70, 45, 56, 32, 66, 79, 77, 32, 40, 100, 101, 99, 111, 100, 101, 32, 117, 115, 105, 110, 103, 32, 117, 116, 102, 45, 56, 45, 115, 105, 103, 41>> (* Unexpected UTF-8 BOM ?decode using utf-8-sig? *), 0)
    ELSE LET Document(r) ==
                 LET e == SkipWs(text, r.next)
                 IN  IF r.ok /\ e <= Len(text) THEN ParseFail(<<69, 120, 116, 114, 97, 32, 100, 97, 116, 97>> (* Extra data *), e - 1) ELSE r
         IN  Document(ParseValue(text, SkipWs(text, 1), 0))

\* bool(x)
Truthy(x) ==
    CASE x.t = "NoneType" -> FALSE
      [] x.t = "bool"     -> x.v
      [] x.t = "int"      -> x.v # <<48>> (* 0 *)
      [] x.t = "float"    -> x.v \notin {<<48, 46, 48>> (* 0.0 *), <<45, 48, 46, 48>> (* -0.0 *)}
      [] OTHER            -> x.v # << >>

\* data.get(key) on the items of a dict
ObjGet(items, key) ==
    IF \E k \in DOMAIN items : items[k][1] = key
    THEN items[CHOOSE k \in DOMAIN items : items[k][1] = key][2]
    ELSE JNull

(***************************************************************************)
(* Values the model services return.  An extraction outcome is what        *)
(* MODEL.generate_content(prompt) does: it raises (text is then str(e)) or *)
(* it returns a response whose text is given.                              *)
(***************************************************************************)
Raises(msg) == [raised |-> TRUE, text |-> msg]
Returns(text) == [raised |-> FALSE, text |-> text]

\* what an `except Exception as e` caught: nothing, or e with text = str(e)
NoException == [raised |-> FALSE, text |-> << >>]

\* '429' in str(e) or 'quota' in str(e).lower()
IsQuotaError(msg) == Contains(msg, <<52, 50, 57>> (* 429 *)) \/ Contains(Lower(msg), <<113, 117, 111, 116, 97>> (* quota *))

\* response.text.strip(), then the markdown fence removed: text[7:-3].strip()
FenceOpen == <<96, 96, 96, 106, 115, 111, 110>> (* '''json *)
StripFence(raw) ==
    LET text == Strip(raw)
    IN  IF StartsWith(text, FenceOpen)
        THEN Strip(SubSeq(text, Len(FenceOpen) + 1, Len(text) - 3))
        ELSE text

\* str(e) of the AttributeError a missing method raises
NoAttribute(x, method) ==
    <<39>> (* ' *) \o TypeName(x) \o <<39, 32, 111, 98, 106, 101, 99, 116, 32, 104, 97, 115, 32, 110, 111, 32, 97, 116, 116, 114, 105, 98, 117, 116, 101, 32, 39>> (* ' object has no attribute ' *) \o method \o <<39>> (* ' *)

(***************************************************************************)
(* fetch_paper_details: the authors of one citation record.  An author is  *)
(* a record that may lack ForeName, LastName or AffiliationInfo (a list of *)
(* records that may lack Affiliation).                                     *)
(***************************************************************************)
Unknown == <<85, 110, 107, 110, 111, 119, 110>> (* Unknown *)

AffiliationOf(author) ==
    IF "AffiliationInfo" \in DOMAIN author /\ author.AffiliationInfo # << >>
    THEN LET first == author.AffiliationInfo[1]
         IN  IF "Affiliation" \in DOMAIN first THEN first.Affiliation ELSE << >>
    ELSE << >>

LocationOf(affil) ==
    LET parts == SplitOn(affil, 44 (* , *))
    IN  IF affil # << >> /\ Len(parts) > 1
        THEN Strip(parts[Len(parts) - 1]) \o <<44, 32>> (* ,  *) \o Strip(parts[Len(parts)])
        ELSE Unknown

RECURSIVE AuthorsOf(_)
AuthorsOf(AuthorList) ==
    IF AuthorList = << >> THEN << >>
    ELSE LET author == Head(AuthorList)
             rest == AuthorsOf(Tail(AuthorList))
         IN  IF "LastName" \in DOMAIN author /\ "ForeName" \in DOMAIN author
             THEN <<[name |-> JStr(author.ForeName \o <<32>> (*   *) \o author.LastName),
                     affiliation |-> AffiliationOf(author),
                     location |-> JStr(LocationOf(AffiliationOf(author)))]>> \o rest
             ELSE rest

fetch_paper_details(paper) == [authors |-> AuthorsOf(paper.AuthorList)]

\* run_biotech_pipeline, stage 1: the lead built from one author
CompanyOf(affiliation) ==
    IF affiliation # << >> THEN SplitOn(affiliation, 44 (* , *))[1] ELSE Unknown

AuthorLead(author) ==
    [name |-> author.name,
     title |-> <<82, 101, 115, 101, 97, 114, 99, 104, 101, 114>> (* Researcher *),
     company |-> CompanyOf(author.affiliation),
     location |-> author.location,
     source |-> <<80, 117, 98, 77, 101, 100>> (* PubMed *),
     has_recent_paper |-> TRUE]

PaperLeads(paper) ==
    LET authors == fetch_paper_details(paper).authors
    IN  [k \in 1..Len(authors) |-> AuthorLead(authors[k])]

(***************************************************************************)
(* scrape_conference_attendees: the names asked of the extraction service, *)
(* the pattern-matching fallback, and the attendee built from each name.   *)
(***************************************************************************)
\* dict[key] = value
SetKey(dict, key, value) == (key :> value) @@ dict

\* dict.get(key, default)
Get(dict, key, default) == IF key \in DOMAIN dict THEN dict[key] ELSE default

NameCap == 20

\* the try block of scrape_conference_attendees: names = json.loads(text), or
\* [] with the exception caught when the call or the parse raises
ExtractNames(outcome) ==
    LET Loaded(text, r) ==
            IF r.ok THEN [names |-> r.val, caught |-> NoException]
            ELSE [names |-> JList(<< >>), caught |-> Raises(FailureText(text, r))]
        Stripped(text) == Loaded(text, JsonLoads(text))
    IN  IF outcome.raised THEN [names |-> JList(<< >>), caught |-> Raises(outcome.text)]
        ELSE Stripped(StripFence(outcome.text))

\* every match of the name pattern, over the snippets in order
RECURSIVE FallbackNames(_)
FallbackNames(snippets) ==
    IF snippets = << >> THEN << >>
    ELSE FindNames(Head(snippets)) \o FallbackNames(Tail(snippets))

\* the orders in which list(set(names)) may list the distinct names
Orderings(names) ==
    LET S == Range(names)
    IN  {f \in [1..Cardinality(S) -> S] : \A a, b \in DOMAIN f : f[a] = f[b] => a = b}

Attendee(name) ==
    [name |-> name,
     title |-> <<83, 112, 101, 97, 107, 101, 114>> (* Speaker *),
     company |-> Unknown,
     location |-> JStr(Unknown),
     source |-> <<67, 111, 110, 102, 101, 114, 101, 110, 99, 101>> (* Conference *)]

\* for name in names: what iterating the parsed value yields
Iterate(names) ==
    CASE names.t = "list" -> names.v
      [] names.t = "str"  -> [k \in DOMAIN names.v |-> JStr(<<names.v[k]>>)]
      [] names.t = "dict" -> [k \in DOMAIN names.v |-> JStr(names.v[k][1])]
      [] OTHER            -> << >>

\* The part of scrape_conference_attendees after the extraction: `names` is
\* the parsed value, `order` the order list(set(...)) happens to produce.
\* raised names the exception that leaves the function, "none" if none does.
AttendeesOf(names, snippets, order) ==
    LET done(ns) == [raised |-> "none",
                     attendees |-> [k \in DOMAIN ns |-> Attendee(ns[k])]]
        fails(e) == [raised |-> e, attendees |-> << >>]
    IN  IF Truthy(names)
        THEN IF names.t \in {"list", "str", "dict"} THEN done(Iterate(names))
             ELSE fails("TypeError")
        ELSE IF names.t = "list"
             THEN done([k \in 1..Min(NameCap, Len(order)) |-> JStr(order[k])])
             ELSE IF snippets # << >> THEN fails("AttributeError")
             ELSE IF names.t \in {"str", "dict"} THEN done(<< >>)
             ELSE fails("TypeError")

(***************************************************************************)
(* enrich_person                                                           *)
(***************************************************************************)
NoContact == [linkedin |-> JNull, email |-> JNull, location |-> JNull]

\* the try block of enrich_person: data = json.loads(text) and the three
\* data.get(...), or all None with the exception caught when anything raises
ExtractContact(outcome) ==
    LET Loaded(text, r) ==
            IF ~r.ok
            THEN [contact |-> NoContact, caught |-> Raises(FailureText(text, r))]
            ELSE IF r.val.t # "dict"
            THEN [contact |-> NoContact, caught |-> Raises(NoAttribute(r.val, <<103, 101, 116>> (* get *)))]
            ELSE [contact |-> [linkedin |-> ObjGet(r.val.v, <<108, 105, 110, 107, 101, 100, 105, 110>> (* linkedin *)),
                               email |-> ObjGet(r.val.v, <<101, 109, 97, 105, 108>> (* email *)),
                               location |-> ObjGet(r.val.v, <<108, 111, 99, 97, 116, 105, 111, 110>> (* location *))],
                  caught |-> NoException]
        Stripped(text) == Loaded(text, JsonLoads(text))
    IN  IF outcome.raised THEN [contact |-> NoContact, caught |-> Raises(outcome.text)]
        ELSE Stripped(StripFence(outcome.text))

SynthLinkedin(name) == <<104, 116, 116, 112, 115, 58, 47, 47, 108, 105, 110, 107, 101, 100, 105, 110, 46, 99, 111, 109, 47, 105, 110, 47>> (* https://linkedin.com/in/ *) \o Lower(RemoveChar(name, 32 (* space *)))

\* defined when name.split() is not empty; the code raises IndexError otherwise
SynthEmail(name, company) ==
    LET Address(words) ==
            Lower(words[1]) \o <<46>> (* . *) \o Lower(words[Len(words)]) \o <<64>> (* @ *)
                \o Lower(RemoveChar(company, 32 (* space *))) \o <<46, 99, 111, 109>> (* .com *)
    IN  Address(SplitWs(name))

\* The assignments that end enrich_person, on the dict `person` itself:
\* name.replace and name.split raise AttributeError when name is no str,
\* name.split()[0] raises IndexError when name holds no word.  p1 is the dict
\* once linkedin is assigned, p2 once email is.
ApplyContact(person, contact) ==
    LET name == person.name
        company == Get(person, "company", Unknown)
        Located(p2) ==
            [raised |-> "none",
             person |-> IF Truthy(contact.location)
                        THEN SetKey(p2, "location", contact.location) ELSE p2]
        Linked(p1) ==
            IF ~Truthy(contact.email) /\ name.t # "str"
            THEN [raised |-> "AttributeError", person |-> p1]
            ELSE IF ~Truthy(contact.email) /\ SplitWs(name.v) = << >>
            THEN [raised |-> "IndexError", person |-> p1]
            ELSE Located(SetKey(p1, "email",
                                IF Truthy(contact.email) THEN contact.email
                                ELSE JStr(SynthEmail(name.v, company))))
    IN  IF ~Truthy(contact.linkedin) /\ name.t # "str"
        THEN [raised |-> "AttributeError", person |-> person]
        ELSE Linked(SetKey(person, "linkedin",
                           IF Truthy(contact.linkedin) THEN contact.linkedin
                           ELSE JStr(SynthLinkedin(name.v))))

(***************************************************************************)
(* calculate_score                                                         *)
(***************************************************************************)
TitleWords == {<<116, 111, 120, 105, 99, 111, 108, 111, 103, 121>> (* toxicology *), <<115, 97, 102, 101, 116, 121>> (* safety *), <<104, 101, 112, 97, 116, 105, 99>> (* hepatic *), <<51, 100>> (* 3d *), <<112, 114, 101, 99, 108, 105, 110, 105, 99, 97, 108>> (* preclinical *), <<100, 105, 114, 101, 99, 116, 111, 114>> (* director *), <<104, 101, 97, 100>> (* head *)}
Hubs == {<<98, 111, 115, 116, 111, 110>> (* boston *), <<99, 97, 109, 98, 114, 105, 100, 103, 101>> (* cambridge *), <<115, 97, 110, 32, 102, 114, 97, 110, 99, 105, 115, 99, 111>> (* san francisco *), <<98, 97, 115, 101, 108>> (* basel *), <<108, 111, 110, 100, 111, 110>> (* london *)}
ScoreCap == 100

\* person.get('location', '').lower() raises AttributeError when the location
\* the extraction gave is no str
LowerRaises(person) == Get(person, "location", JStr(<< >>)).t # "str"

\* the try block of calculate_score: the first integer of the response text,
\* as its str; 0 when none is found, or with the exception caught when the
\* call or int() raises
ExtractScore(outcome) ==
    LET Matched(score_match) ==
            IF ~score_match.found THEN [score |-> <<48>> (* 0 *), caught |-> NoException]
            ELSE IF Len(score_match.group) > MaxStrDigits
            THEN [score |-> <<48>> (* 0 *), caught |-> Raises(IntLimitText(Len(score_match.group)))]
            ELSE [score |-> IntText(score_match.group), caught |-> NoException]
    IN  IF outcome.raised THEN [score |-> <<48>> (* 0 *), caught |-> Raises(outcome.text)]
        ELSE Matched(FirstInt(Strip(outcome.text)))

\* the "Fallback" additions
Heuristic(person, funding_snippets) ==
    LET title == Lower(Get(person, "title", << >>))
        location == Lower(Get(person, "location", JStr(<< >>)).v)
        Funded(body) == Contains(body, <<115, 101, 114, 105, 101, 115>> (* series *)) \/ Contains(body, <<114, 97, 105, 115, 101, 100>> (* raised *))
    IN    (IF \E word \in TitleWords : Contains(title, word) THEN 30 ELSE 0)
        + (IF \E k \in DOMAIN funding_snippets : Funded(Lower(funding_snippets[k]))
           THEN 20 ELSE 0)
        + 15
        + (IF \E hub \in Hubs : Contains(Lower(location), hub) THEN 10 ELSE 0)
        + (IF Get(person, "has_recent_paper", FALSE) THEN 40 ELSE 0)

\* calculate_score without its final min(score, 100)
calculate_score_Unclamped(person, funding_snippets, score) ==
    DigitsToInt(MulAdd(score, 1, Heuristic(person, funding_snippets)))

\* `score` is the str of the extraction's score, of 0 when the service was
\* not called; the result is an int the checker's integers hold
calculate_score(person, funding_snippets, score) ==
    MinNat(MulAdd(score, 1, Heuristic(person, funding_snippets)), ScoreCap)

\* an ascending sort read backwards: descending, but equal scores change places
RECURSIVE SortByScore_Unstable(_, _)
SortByScore_Unstable(refs, dicts) ==
    IF refs = << >> THEN << >>
    ELSE LET front == SortByScore_Unstable(SubSeq(refs, 1, Len(refs) - 1), dicts)
             x == refs[Len(refs)]
             ahead == {k \in DOMAIN front : dicts[front[k]].score > dicts[x].score}
             at == IF ahead = {} THEN 0
                   ELSE CHOOSE k \in ahead : \A j \in ahead : k >= j
         IN  SubSeq(front, 1, at) \o <<x>> \o SubSeq(front, at + 1, Len(front))

\* enriched_leads.sort(key=lambda x: x['score'], reverse=True), on a list of
\* references into `dicts`: list.sort is stable, also with reverse=True
RECURSIVE SortByScore(_, _)
SortByScore(refs, dicts) ==
    IF refs = << >> THEN << >>
    ELSE LET front == SortByScore(SubSeq(refs, 1, Len(refs) - 1), dicts)
             x == refs[Len(refs)]
             ahead == {k \in DOMAIN front : dicts[front[k]].score >= dicts[x].score}
             at == IF ahead = {} THEN 0
                   ELSE CHOOSE k \in ahead : \A j \in ahead : k >= j
         IN  SubSeq(front, 1, at) \o <<x>> \o SubSeq(front, at + 1, Len(front))

(***************************************************************************)
(* The services' possible answers.                                         *)
(***************************************************************************)
MaxPmids == 2

\* the citation records behind the identifiers search_pubmed may return
Papers ==
    << [AuthorList |-> << [ForeName |-> <<74, 97, 110, 101>> (* Jane *), LastName |-> <<68, 111, 101>> (* Doe *),
                           AffiliationInfo |-> <<[Affiliation |-> <<65, 99, 109, 101, 32, 73, 110, 99, 44, 32, 66, 111, 115, 116, 111, 110, 44, 32, 77, 65>> (* Acme Inc, Boston, MA *)]>>],
                          [LastName |-> <<83, 111, 108, 111>> (* Solo *)] >>],
       [AuthorList |-> << [ForeName |-> <<65, 110, 110>> (* Ann *), LastName |-> <<76, 101, 101>> (* Lee *),
                           AffiliationInfo |-> <<[Affiliation |-> <<44, 32, 66, 97, 115, 101, 108>> (* , Basel *)]>>] >>],
       [AuthorList |-> << [ForeName |-> <<74, 111, 104, 110>> (* John *), LastName |-> <<82, 111, 101>> (* Roe *)] >>] >>

\* the k-th author of a many-authored citation: Aa Park, Ab Park, ..., Ba Park, ...
BatchAuthor(k) ==
    [ForeName |-> <<65 (* A *) + ((k - 1) \div 26), 97 (* a *) + ((k - 1) % 26)>>, LastName |-> <<80, 97, 114, 107>> (* Park *)]

\* records['PubmedArticle'][0] for the identifier pmid: a record of Papers, or,
\* past those, a citation with pmid - Len(Papers) - 1 authors
Citation(pmid) ==
    IF pmid \in DOMAIN Papers THEN Papers[pmid]
    ELSE [AuthorList |-> [k \in 1..(pmid - Len(Papers) - 1) |-> BatchAuthor(k)]]

\* record["IdList"]: at most MaxPmids identifiers, in the catalogue's order
PmidLists ==
    UNION {{l \in [1..n -> DOMAIN Papers] : \A a, b \in 1..n : a < b => l[a] < l[b]}
           : n \in 0..MaxPmids}

\* the bodies ddgs.text returns for the conference query
ConferenceSnippets == {<< >>, <<<<75, 101, 121, 110, 111, 116, 101, 58, 32, 75, 105, 109, 32, 80, 97, 114, 107>> (* Keynote: Kim Park *)>>}

\* the bodies ddgs.text returns for a funding query
FundingSnippets == {<< >>, <<<<65, 99, 109, 101, 32, 114, 97, 105, 115, 101, 100, 32, 36, 53, 77>> (* Acme raised $5M *)>>}

QuotaError == Raises(<<52, 50, 57, 32, 84, 111, 111, 32, 77, 97, 110, 121, 32, 82, 101, 113, 117, 101, 115, 116, 115>> (* 429 Too Many Requests *))
OtherError == Raises(<<53, 48, 48, 32, 73, 110, 116, 101, 114, 110, 97, 108>> (* 500 Internal *))

\* a response that is no JSON: `open`, 428 spaces and an x, which json.loads
\* rejects at character 429
Malformed429(open) == <<open>> \o [k \in 1..428 |-> 32 (* space *)] \o <<120>> (* x *)

NameOutcomes ==
    {QuotaError, Raises(<<81, 117, 111, 116, 97, 32, 101, 120, 99, 101, 101, 100, 101, 100>> (* Quota exceeded *)), OtherError,
     Returns(<<96, 96, 96, 106, 115, 111, 110, 10, 91, 34, 75, 105, 109, 32, 80, 97, 114, 107, 34, 93, 10, 96, 96, 96>> (* '''json ['Kim Park'] ''' *)),
     Returns(<<91, 93>> (* [] *)),
     Returns(<<91, 34, 34, 93>> (* [''] *)),
     Returns(<<91, 110, 117, 108, 108, 93>> (* [null] *)),
     Returns(<<91, 34, 74, 111, 115, 92, 117, 48, 48, 101, 57, 32, 82, 117, 105, 122, 34, 93>> (* ['Jos?u00e9 Ruiz'] *)),
     Returns(<<49, 46, 53>> (* 1.5 *)),
     Returns(<<110, 117, 108, 108>> (* null *)),
     Returns(<<123, 34, 110, 97, 109, 101, 115, 34, 58, 32, 91, 93, 125>> (* {'names': []} *)),
     Returns(<<83, 111, 114, 114, 121>> (* Sorry *)),
     Returns(Malformed429(91 (* [ *)))}

ContactOutcomes ==
    {QuotaError, OtherError,
     Returns(<<123, 34, 108, 105, 110, 107, 101, 100, 105, 110, 34, 58, 32, 110, 117, 108, 108, 44, 32, 34, 101, 109, 97, 105, 108, 34, 58, 32, 110, 117, 108, 108, 44, 32, 34, 108, 111, 99, 97, 116, 105, 111, 110, 34, 58, 32, 110, 117, 108, 108, 125>> (* {'linkedin': null, 'email': null, 'location': null} *)),
     Returns(<<123, 34, 108, 105, 110, 107, 101, 100, 105, 110, 34, 58, 32, 34, 104, 116, 116, 112, 115, 58, 47, 47, 108, 105, 110, 107, 101, 100, 105, 110, 46, 99, 111, 109, 47, 105, 110, 47, 106, 100, 34, 44, 32, 34, 101, 109, 97, 105, 108, 34, 58, 32, 34, 106, 100, 64, 97, 99, 109, 101, 46, 99, 111, 109, 34, 44, 32, 34, 108, 111, 99, 97, 116, 105, 111, 110, 34, 58, 32, 34, 66, 97, 115, 101, 108, 44, 32, 67, 72, 34, 125>> (* {'linkedin': 'https://linkedin.com/in/jd', 'email': 'jd@acme.com', 'location': 'Basel, CH'} *)),
     Returns(<<123, 34, 108, 105, 110, 107, 101, 100, 105, 110, 34, 58, 32, 34, 110, 111, 116, 32, 102, 111, 117, 110, 100, 34, 44, 32, 34, 101, 109, 97, 105, 108, 34, 58, 32, 34, 110, 47, 97, 34, 125>> (* {'linkedin': 'not found', 'email': 'n/a'} *)),
     Returns(<<123, 34, 108, 111, 99, 97, 116, 105, 111, 110, 34, 58, 32, 53, 125>> (* {'location': 5} *)),
     Returns(<<91, 93>> (* [] *)),
     Returns(<<83, 111, 114, 114, 121>> (* Sorry *)),
     Returns(Malformed429(123 (* { *)))}

ScoreOutcomes ==
    {QuotaError, OtherError,
     Returns(<<83, 99, 111, 114, 101, 58, 32, 52, 48>> (* Score: 40 *)),
     Returns(<<84, 111, 116, 97, 108, 32, 115, 99, 111, 114, 101, 58, 32, 49, 50, 48>> (* Total score: 120 *)),
     Returns(<<84, 111, 116, 97, 108, 58, 32, 65300, 65296>> (* Total: ?? *)),
     Returns(<<110, 47, 97>> (* n/a *))}

(***************************************************************************)
(* The state of one run of run_biotech_pipeline.                           *)
(***************************************************************************)
VARIABLES
    MODEL,            \* whether a generative model was found at import
    quota_exceeded,   \* the global flag
    pc,               \* where run_biotech_pipeline is
    pmids,            \* the identifiers search_pubmed returned
    i,                \* the index of the loop the pipeline is in
    leads,            \* the lead dicts, in identification order
    enriched_leads,   \* references (indices) to the dicts of leads
    funding,          \* the results a funding query may get in this run
    error,            \* the exception that left run_biotech_pipeline, if any
    llm_calls,        \* how many times MODEL.generate_content was called
    response,         \* what the last generate_content call did
    snippets          \* the bodies the last conference or funding search returned

vars == <<MODEL, quota_exceeded, pc, pmids, i, leads, enriched_leads, funding,
          error, llm_calls, response, snippets>>

BatchLimit == 30

NoError == [type |-> "none", at |-> "none"]
Failure(type, at) == [type |-> type, at |-> at]

Init ==
    /\ MODEL \in BOOLEAN
    /\ quota_exceeded = FALSE
    /\ pc = "start"
    /\ pmids = << >>
    /\ i = 1
    /\ leads = << >>
    /\ enriched_leads = << >>
    /\ funding \in {{f} : f \in FundingSnippets}
    /\ error = NoError
    /\ llm_calls = 0
    /\ response = Returns(<< >>)
    /\ snippets = << >>

\* the exception leaves run_biotech_pipeline: nothing catches it
Abort(type, at) ==
    /\ pc' = "failed"
    /\ error' = Failure(type, at)

\* the bookkeeping of one extraction call site: `called` is whether
\* generate_content was called, `outcome` what it did, `caught` the exception
\* the site's except clause caught, which sets the flag when its text holds
\* '429' or 'quota'
Extraction(called, outcome, caught) ==
    /\ llm_calls' = IF called THEN llm_calls + 1 ELSE llm_calls
    /\ response' = IF called THEN outcome ELSE response
    /\ quota_exceeded' = (quota_exceeded
                            \/ (called /\ caught.raised /\ IsQuotaError(caught.text)))

\* calculate_score's call site without the quota test
ScoreCalls_IgnoringQuota == MODEL

\* the `if MODEL and not quota_exceeded` of each call site
ScrapeCalls == MODEL /\ ~quota_exceeded
EnrichCalls == MODEL /\ ~quota_exceeded
ScoreCalls == MODEL /\ ~quota_exceeded

\* the configuration check, then search_pubmed
Start ==
    /\ pc = "start"
    /\ \E configured \in BOOLEAN, reachable \in BOOLEAN, found \in PmidLists :
          IF ~configured
          THEN pc' = "done" /\ UNCHANGED <<pmids, error>>
          ELSE IF ~reachable
          THEN Abort("SourceUnavailable", "search_pubmed") /\ UNCHANGED pmids
          ELSE /\ pmids' = found
               /\ pc' = IF found = << >> THEN "conference" ELSE "identify"
               /\ UNCHANGED error
    /\ UNCHANGED <<MODEL, quota_exceeded, i, leads, enriched_leads, funding,
                   llm_calls, response, snippets>>

\* one iteration of `for pmid in pmids`: fetch_paper_details, then a lead per author
Fetch ==
    /\ pc = "identify"
    /\ \E reachable \in BOOLEAN :
          IF ~reachable
          THEN Abort("SourceUnavailable", "fetch_paper_details") /\ UNCHANGED <<i, leads>>
          ELSE /\ leads' = leads \o PaperLeads(Citation(pmids[i]))
               /\ i' = IF i = Len(pmids) THEN 1 ELSE i + 1
               /\ pc' = IF i = Len(pmids) THEN "conference" ELSE "identify"
               /\ UNCHANGED error
    /\ UNCHANGED <<MODEL, quota_exceeded, pmids, enriched_leads, funding,
                   llm_calls, response, snippets>>

\* the enrichment loop over all of leads, without the slice
Batch_All(all) == all

\* leads[:30]
Batch(all) == SubSeq(all, 1, Min(Len(all), BatchLimit))

\* scrape_conference_attendees, then the conference leads appended
Scrape ==
    /\ pc = "conference"
    /\ \E reachable \in BOOLEAN, bodies \in ConferenceSnippets, outcome \in NameOutcomes :
       \E order \in Orderings(FallbackNames(bodies)) :
          IF ~reachable
          THEN /\ Abort("SourceUnavailable", "scrape_conference_attendees")
               /\ UNCHANGED <<quota_exceeded, leads, llm_calls, response, snippets>>
          ELSE LET called == ScrapeCalls
                   Appended(all) ==
                       /\ leads' = all
                       /\ pc' = IF Batch(all) = << >> THEN "sort" ELSE "enrich"
                       /\ UNCHANGED error
                   Returned(r) ==
                       IF r.raised # "none"
                       THEN Abort(r.raised, "scrape_conference_attendees") /\ UNCHANGED leads
                       ELSE Appended(leads \o [k \in DOMAIN r.attendees |->
                                SetKey(r.attendees[k], "has_recent_paper", FALSE)])
                   Tried(tried) ==
                       /\ Extraction(called, outcome, tried.caught)
                       /\ snippets' = bodies
                       /\ Returned(AttendeesOf(tried.names, bodies, order))
               IN  Tried(IF called THEN ExtractNames(outcome)
                         ELSE [names |-> JList(<< >>), caught |-> NoException])
    /\ UNCHANGED <<MODEL, pmids, i, enriched_leads, funding>>

\* one iteration of `for i, lead in enumerate(leads[:30])`: enrich_person(lead)
Enrich ==
    /\ pc = "enrich"
    /\ \E reachable \in BOOLEAN, outcome \in ContactOutcomes :
          IF ~reachable
          THEN /\ Abort("SourceUnavailable", "enrich_person")
               /\ UNCHANGED <<quota_exceeded, i, leads, enriched_leads, llm_calls, response>>
          ELSE LET called == EnrichCalls
                   Returned(r) ==
                       /\ leads' = [leads EXCEPT ![i] = r.person]
                       /\ IF r.raised # "none"
                          THEN Abort(r.raised, "enrich_person") /\ UNCHANGED <<i, enriched_leads>>
                          ELSE /\ enriched_leads' = Append(enriched_leads, i)
                               /\ i' = IF i = Len(Batch(leads)) THEN 1 ELSE i + 1
                               /\ pc' = IF i = Len(Batch(leads)) THEN "score" ELSE "enrich"
                               /\ UNCHANGED error
                   Tried(tried) ==
                       /\ Extraction(called, outcome, tried.caught)
                       /\ Returned(ApplyContact(leads[i], tried.contact))
               IN  Tried(IF called THEN ExtractContact(outcome)
                         ELSE [contact |-> NoContact, caught |-> NoException])
    /\ UNCHANGED <<MODEL, pmids, funding, snippets>>

\* one iteration of `for lead in enriched_leads`: lead['score'] = calculate_score(lead)
Score(outcomes) ==
    /\ pc = "score"
    /\ \E reachable \in BOOLEAN, bodies \in funding, outcome \in outcomes :
          IF LowerRaises(leads[enriched_leads[i]])
          THEN /\ Abort("AttributeError", "calculate_score")
               /\ UNCHANGED <<quota_exceeded, i, leads, llm_calls, response, snippets>>
          ELSE IF ~reachable
          THEN /\ Abort("SourceUnavailable", "calculate_score")
               /\ UNCHANGED <<quota_exceeded, i, leads, llm_calls, response, snippets>>
          ELSE LET called == ScoreCalls
                   tried == IF called THEN ExtractScore(outcome)
                            ELSE [score |-> <<48>> (* 0 *), caught |-> NoException]
                   ref == enriched_leads[i]
               IN  /\ Extraction(called, outcome, tried.caught)
                   /\ snippets' = bodies
                   /\ leads' = [leads EXCEPT ![ref] =
                                   SetKey(@, "score", calculate_score(@, bodies, tried.score))]
                   /\ i' = IF i = Len(enriched_leads) THEN 1 ELSE i + 1
                   /\ pc' = IF i = Len(enriched_leads) THEN "sort" ELSE "score"
                   /\ UNCHANGED error
    /\ UNCHANGED <<MODEL, pmids, enriched_leads, funding>>

\* enriched_leads.sort(...): the pipeline's result is ready
Sort ==
    /\ pc = "sort"
    /\ enriched_leads' = SortByScore(enriched_leads, leads)
    /\ pc' = "done"
    /\ UNCHANGED <<MODEL, quota_exceeded, pmids, i, leads, funding, error,
                   llm_calls, response, snippets>>

Next == Start \/ Fetch \/ Scrape \/ Enrich \/ Score(ScoreOutcomes) \/ Sort

Spec == Init /\ [][Next]_vars

(***************************************************************************)
(* calculate_score and the sort on their own: the scoring stage run on up  *)
(* to MaxScoreLeads enriched leads, taken from a roster that covers every  *)
(* combination of title keyword, hub location and recent publication.      *)
(***************************************************************************)
MaxScoreLeads == 4

\* the dict enrich_person returns for a lead when no extraction was made
Enriched(lead) ==
    ApplyContact([name |-> JStr(lead[1]), title |-> lead[2], company |-> lead[3],
                  location |-> JStr(lead[4]), source |-> <<80, 117, 98, 77, 101, 100>> (* PubMed *),
                  has_recent_paper |-> lead[5]], NoContact).person

\* name, title, company, location and has_recent_paper of the roster's leads
Roster ==
    LET EnrichedAll(raw) == [k \in DOMAIN raw |-> Enriched(raw[k])]
    IN  EnrichedAll(
          << <<<<74, 97, 110, 101, 32, 68, 111, 101>> (* Jane Doe *), <<82, 101, 115, 101, 97, 114, 99, 104, 101, 114>> (* Researcher *), <<65, 99, 109, 101, 32, 73, 110, 99>> (* Acme Inc *), <<66, 111, 115, 116, 111, 110, 44, 32, 77, 65>> (* Boston, MA *), TRUE>>,
             <<<<65, 110, 110, 32, 76, 101, 101>> (* Ann Lee *), <<82, 101, 115, 101, 97, 114, 99, 104, 101, 114>> (* Researcher *), Unknown, Unknown, TRUE>>,
             <<<<75, 105, 109, 32, 80, 97, 114, 107>> (* Kim Park *), <<83, 112, 101, 97, 107, 101, 114>> (* Speaker *), Unknown, Unknown, FALSE>>,
             <<<<76, 101, 101, 32, 67, 104, 97, 110>> (* Lee Chan *), <<83, 112, 101, 97, 107, 101, 114>> (* Speaker *), Unknown, <<66, 97, 115, 101, 108, 44, 32, 67, 72>> (* Basel, CH *), FALSE>>,
             <<<<69, 118, 101, 32, 77, 111, 115, 115>> (* Eve Moss *), <<72, 101, 97, 100, 32, 111, 102, 32, 83, 97, 102, 101, 116, 121>> (* Head of Safety *), <<84, 111, 120, 32, 76, 116, 100>> (* Tox Ltd *), <<76, 111, 110, 100, 111, 110, 44, 32, 85, 75>> (* London, UK *), TRUE>>,
             <<<<68, 97, 110, 32, 67, 111, 108, 101>> (* Dan Cole *), <<68, 105, 114, 101, 99, 116, 111, 114>> (* Director *), <<66, 105, 111, 32, 65, 71>> (* Bio AG *), Unknown, FALSE>>,
             <<<<73, 100, 97, 32, 86, 111, 115, 115>> (* Ida Voss *), <<68, 105, 114, 101, 99, 116, 111, 114, 32, 111, 102, 32, 84, 111, 120, 105, 99, 111, 108, 111, 103, 121>> (* Director of Toxicology *), <<65, 99, 109, 101, 32, 73, 110, 99>> (* Acme Inc *), <<67, 97, 109, 98, 114, 105, 100, 103, 101, 44, 32, 77, 65>> (* Cambridge, MA *), FALSE>>,
             <<<<77, 97, 120, 32, 75, 101, 114, 110>> (* Max Kern *), <<51, 68, 32, 76, 101, 97, 100>> (* 3D Lead *), <<65, 99, 109, 101, 32, 73, 110, 99>> (* Acme Inc *), Unknown, TRUE>> >>)

ScoringFrom(most) ==
    /\ MODEL \in BOOLEAN
    /\ quota_exceeded = FALSE
    /\ pc = "score"
    /\ pmids = << >>
    /\ i = 1
    /\ \E roster \in {Roster}, n \in 1..most :
       \E a \in 1..(Len(roster) - n + 1) :
          /\ leads = SubSeq(roster, a, a + n - 1)
          /\ enriched_leads = [k \in 1..n |-> k]
    /\ funding = FundingSnippets
    /\ error = NoError
    /\ llm_calls = 0
    /\ response = Returns(<< >>)
    /\ snippets = << >>

InitScoring == ScoringFrom(MaxScoreLeads)

NextScoring == Score(ScoreOutcomes) \/ Sort

SpecScoring == InitScoring /\ [][NextScoring]_vars

(***************************************************************************)
(* The integer of the response: scoring and sorting of up to MaxLongLeads  *)
(* leads of the roster, when the extraction service may also answer with   *)
(* more digits than int() converts.                                        *)
(***************************************************************************)
MaxLongLeads == 2

\* a response of one digit more than int() accepts
DigitFlood == [k \in 1..(MaxStrDigits + 1) |-> 57 (* 9 *)]

LongScoreOutcomes == ScoreOutcomes \cup {Returns(DigitFlood)}

InitLong == ScoringFrom(MaxLongLeads)

NextLong == Score(LongScoreOutcomes) \/ Sort

SpecLong == InitLong /\ [][NextLong]_vars

(***************************************************************************)
(* The enrichment limit: the pipeline from the end of identification, when *)
(* the citation search gave one citation of up to MaxBatchLeads authors,   *)
(* the conference search gave nothing, and the extraction service is out   *)
(* of use: there is no model, or the name extraction, the first call of    *)
(* the run, failed on the quota.                                           *)
(***************************************************************************)
MaxBatchLeads == 32

InitBatch ==
    /\ MODEL \in BOOLEAN
    /\ quota_exceeded = MODEL
    /\ \E n \in 0..MaxBatchLeads :
          /\ pmids = <<Len(Papers) + 1 + n>>
          /\ leads = PaperLeads(Citation(Len(Papers) + 1 + n))
    /\ i = 1
    /\ pc = IF Batch(leads) = << >> THEN "sort" ELSE "enrich"
    /\ enriched_leads = << >>
    /\ funding \in {{f} : f \in FundingSnippets}
    /\ error = NoError
    /\ llm_calls = IF MODEL THEN 1 ELSE 0
    /\ response = IF MODEL THEN QuotaError ELSE Returns(<< >>)
    /\ snippets = << >>

NextBatch == Enrich \/ Score(ScoreOutcomes) \/ Sort

SpecBatch == InitBatch /\ [][NextBatch]_vars

(***************************************************************************)
(* The claims.                                                             *)
(***************************************************************************)
\* Used by the claims: the dict the scoring loop scored last, once it has ended
LastScored == leads[enriched_leads[Len(enriched_leads)]]

\* whether the extraction service answered every call of a finished scoring loop
AllAnswered == MODEL /\ ~quota_exceeded /\ ~response.raised

\* C1: quota_exceeded starts false and is never reset; once it is true no call
\* site calls MODEL.generate_content again; and a call that fails with '429' or
\* 'quota' in its error sets it.
C1_QuotaOneWay ==
    /\ quota_exceeded = FALSE
    /\ [][/\ quota_exceeded => (quota_exceeded' /\ llm_calls' = llm_calls)
          /\ (/\ llm_calls' # llm_calls
              /\ response'.raised
              /\ \/ Contains(response'.text, <<52, 50, 57>> (* 429 *))
                 \/ Contains(Lower(response'.text), <<113, 117, 111, 116, 97>> (* quota *)))
             => quota_exceeded']_vars

\* the first call failed on the quota, and two leads or more were then enriched
\* and scored without another call
C1_Witness ==
    /\ pc = "done"
    /\ quota_exceeded
    /\ llm_calls = 1
    /\ response.raised
    /\ Len(enriched_leads) >= 2

\* C2: every score calculate_score has stored is an integer from 0 to 100,
\* whatever the extraction answered and whichever bonuses applied.
C2_ScoreInRange ==
    \A k \in DOMAIN leads : "score" \in DOMAIN leads[k] => leads[k].score \in 0..ScoreCap

\* the extraction answered 120 for a lead whose bonuses alone add up to 95 or more
C2_Witness ==
    /\ pc = "sort"
    /\ AllAnswered
    /\ response.text = <<84, 111, 116, 97, 108, 32, 115, 99, 111, 114, 101, 58, 32, 49, 50, 48>> (* Total score: 120 *)
    /\ Heuristic(LastScored, << >>) >= 95
    /\ LastScored.score = ScoreCap

\* C3 (as claimed): a failure of the citation source or of the snippet source
\* never ends the run.
C3_SourceFailureRecovered == error.type # "SourceUnavailable"

\* C4 (as claimed): no malformed extraction response ends the run, and after a
\* malformed answer to the conference call the conference leads are those of the
\* pattern-matching fallback.
C4_MalformedAsUnavailable ==
    /\ error.type \notin {"TypeError", "AttributeError"}
    /\ (/\ pc \in {"enrich", "sort"}
        /\ enriched_leads = << >>
        /\ llm_calls = 1
        /\ \/ response.raised
           \/ ~JsonLoads(StripFence(response.text)).ok
           \/ JsonLoads(StripFence(response.text)).val.t # "list")
       => {leads[k].name : k \in {j \in DOMAIN leads : leads[j].source = <<67, 111, 110, 102, 101, 114, 101, 110, 99, 101>> (* Conference *)}}
              = {JStr(name) : name \in Range(FallbackNames(snippets))}

\* Used by C5: u has the shape http(s)://host/...
UrlShape(u) ==
    \E scheme \in {<<104, 116, 116, 112, 115, 58, 47, 47>> (* https:// *), <<104, 116, 116, 112, 58, 47, 47>> (* http:// *)} :
        StartsWith(u, scheme) /\ Len(u) > Len(scheme) /\ 32 (* space *) \notin Range(u)

\* C5 (as claimed): enrich_person always returns, and the email it stored is
\* non-empty and contains '@', the profile URL non-empty and of the shape
\* http(s)://host/...
C5_ContactWellFormed ==
    /\ error.at # "enrich_person" \/ error.type = "SourceUnavailable"
    /\ \A k \in DOMAIN leads :
          "email" \in DOMAIN leads[k]
              => /\ leads[k].email.t = "str"
                 /\ 64 (* @ *) \in Range(leads[k].email.v)
                 /\ leads[k].linkedin.t = "str"
                 /\ UrlShape(leads[k].linkedin.v)

\* C6 (as claimed): every raw lead has a non-empty name, title, company and location.
C6_RawLeadFields ==
    \A k \in DOMAIN leads :
        /\ leads[k].name.t = "str"
        /\ leads[k].name.v # << >>
        /\ leads[k].title # << >>
        /\ leads[k].company # << >>
        /\ leads[k].location.t = "str"
        /\ leads[k].location.v # << >>

\* C7: no lead dict is changed once it has been passed on: from the end of
\* identification on, enrichment and scoring leave every dict of `leads` as
\* it was.
C7_NeverMutated ==
    [][(pc \in {"enrich", "score", "sort"}) => (leads' = leads)]_vars

\* C8: the result is in descending order of score, and leads of equal score
\* keep the order they had in the stage's input.
C8_SortedStable ==
    pc = "done" =>
        /\ Len(enriched_leads) = Cardinality(Range(enriched_leads))
        /\ \A a, b \in DOMAIN enriched_leads :
              a < b => /\ leads[enriched_leads[a]].score >= leads[enriched_leads[b]].score
                       /\ leads[enriched_leads[a]].score = leads[enriched_leads[b]].score
                              => enriched_leads[a] < enriched_leads[b]

\* the sort moved a lead forward, and two leads tie
C8_Witness ==
    /\ pc = "done"
    /\ \E a, b \in DOMAIN enriched_leads :
          a < b /\ enriched_leads[a] > enriched_leads[b]
    /\ \E a, b \in DOMAIN enriched_leads :
          a < b /\ leads[enriched_leads[a]].score = leads[enriched_leads[b]].score

\* C9: of n identified leads exactly the first min(n, 30) are enriched and
\* scored; the result holds those and no other, and no lead past the limit is
\* touched.
C9_BatchLimit ==
    pc = "done" =>
        LET n == Min(Len(leads), BatchLimit)
        IN  /\ Len(enriched_leads) = n
            /\ Range(enriched_leads) = 1..n
            /\ \A k \in 1..n : {"linkedin", "email", "score"} \subseteq DOMAIN leads[k]
            /\ \A k \in (n + 1)..Len(leads) :
                  DOMAIN leads[k] \cap {"linkedin", "email", "score"} = {}

\* more leads were identified than the limit allows
C9_Witness ==
    /\ pc = "done"
    /\ Len(leads) > BatchLimit
    /\ Len(enriched_leads) = BatchLimit

\* Used by C10: the sum h the claim states, written from the claim's words
C10_Floor(person, bodies) ==
      15
    + (IF \E w \in TitleWords : Contains(Lower(person.title), w) THEN 30 ELSE 0)
    + (IF \E k \in DOMAIN bodies, w \in {<<115, 101, 114, 105, 101, 115>> (* series *), <<114, 97, 105, 115, 101, 100>> (* raised *)} :
             Contains(Lower(bodies[k]), w)
       THEN 20 ELSE 0)
    + (IF \E hub \in Hubs : Contains(Lower(person.location.v), hub) THEN 10 ELSE 0)
    + (IF person.has_recent_paper THEN 40 ELSE 0)

\* C10: the score a scoring step has stored is min(100, m + h): m is the first
\* integer of the response, whatever its size, when the service was called and
\* answered with one, else 0; h is 15, plus 30 for a title keyword, 20 for a
\* funding keyword in a snippet, 10 for a hub location and 40 for a recent
\* publication; h is added in every case.
C10_ModelPlusFloor ==
    (pc \in {"score", "sort"} /\ (i > 1 \/ pc = "sort")) =>
        LET Stored(lead, first) ==
                LET m == IF AllAnswered /\ first.found THEN IntText(first.group) ELSE <<48>> (* 0 *)
                IN  lead.score = MinNat(MulAdd(m, 1, C10_Floor(lead, snippets)), 100)
        IN  Stored(IF pc = "sort" THEN LastScored ELSE leads[enriched_leads[i - 1]],
                   FirstInt(response.text))

====
